---- MODULE Spec2Model ----
(***************************************************************************)
(* Dover bin-collection calendar service (citi94/bins).                    *)
(*                                                                         *)
(* Time is counted in whole hours since 1970-01-01T00:00Z; the process     *)
(* timezone is UTC (the scheduled function and the routes run on the       *)
(* hosting platform's UTC runtime), so local midnight is UTC midnight.     *)
(* A JavaScript Date is an hour count; a PostgreSQL DATE is a day count.   *)
(***************************************************************************)
EXTENDS Integers, Sequences, FiniteSets, TLC

VARIABLES now, subscriptions, collections, overrides, run, issued, call, ret

storeVars == <<subscriptions, collections, overrides, run, issued>>
fnVars == <<call, ret>>
vars == <<now, subscriptions, collections, overrides, run, issued, call, ret>>

(***************************************************************************)
(* Dates                                                                   *)
(***************************************************************************)
HoursPerDay == 24

\* the day the model starts on: 2025-12-22, a Monday
BaseDay == 20444

Abs(x) == IF x < 0 THEN -x ELSE x

DayOf(t) == t \div HoursPerDay

\* date-fns startOfDay in the UTC process timezone
startOfDay(t) == DayOf(t) * HoursPerDay

\* date-fns addDays
addDays(t, n) == t + n * HoursPerDay

\* Date.prototype.getDay(): 1970-01-01 was a Thursday (4)
getDay(t) == (DayOf(t) + 4) % 7

\* proleptic Gregorian calendar: day count -> <<year, month, day>>
CivilFromDays(z) ==
  LET zz == z + 719468
      era == zz \div 146097
      doe == zz - era * 146097
      yoe == (doe - (doe \div 1460) + (doe \div 36524) - (doe \div 146096)) \div 365
      doy == doe - (365 * yoe + (yoe \div 4) - (yoe \div 100))
      mp == (5 * doy + 2) \div 153
      d == doy - ((153 * mp + 2) \div 5) + 1
      m == IF mp < 10 THEN mp + 3 ELSE mp - 9
      y == yoe + era * 400 + (IF m <= 2 THEN 1 ELSE 0)
  IN <<y, m, d>>

\* proleptic Gregorian calendar: year, month, day -> day count
DaysFromCivil(y, m, d) ==
  LET yy == IF m <= 2 THEN y - 1 ELSE y
      era == yy \div 400
      yoe == yy - era * 400
      doy == ((153 * (IF m > 2 THEN m - 3 ELSE m + 9) + 2) \div 5) + d - 1
      doe == yoe * 365 + (yoe \div 4) - (yoe \div 100) + doy
  IN era * 146097 + doe - 719468

IsLeap(y) == (y % 4 = 0 /\ y % 100 # 0) \/ y % 400 = 0

DaysInMonth(y, m) ==
  IF m = 2 THEN (IF IsLeap(y) THEN 29 ELSE 28)
  ELSE IF m \in {4, 6, 9, 11} THEN 30 ELSE 31

\* date-fns addMonths: same day of month, clamped to the target month's end
addMonths(t, months) ==
  LET c == CivilFromDays(DayOf(t))
      mi == (c[2] - 1) + months
      y == c[1] + (mi \div 12)
      m == (mi % 12) + 1
      dim == DaysInMonth(y, m)
      d == IF c[3] > dim THEN dim ELSE c[3]
  IN DaysFromCivil(y, m, d) * HoursPerDay + (t % HoursPerDay)

\* date.toISOString().split('T')[0]: the UTC calendar day as year-month-day
formatDateKey(t) == CivilFromDays(DayOf(t))

\* YYYYMMDD from the UTC getters
formatICalDate(t) ==
  LET c == CivilFromDays(DayOf(t)) IN c[1] * 10000 + c[2] * 100 + c[3]

\* a DATE column keeps the calendar day of the value bound to it
ToSqlDate(t) == DayOf(t)

\* new Date(row.<date column>): midnight of the stored day
FromSqlDate(d) == d * HoursPerDay

(***************************************************************************)
(* Schedule text: a sequence of characters                                 *)
(***************************************************************************)
UpperToLower == ("A" :> "a") @@ ("B" :> "b") @@ ("C" :> "c") @@ ("D" :> "d") @@ ("E" :> "e") @@ ("F" :> "f") @@ ("G" :> "g") @@ ("H" :> "h") @@ ("I" :> "i") @@ ("J" :> "j") @@ ("K" :> "k") @@ ("L" :> "l") @@ ("M" :> "m") @@ ("N" :> "n") @@ ("O" :> "o") @@ ("P" :> "p") @@ ("Q" :> "q") @@ ("R" :> "r") @@ ("S" :> "s") @@ ("T" :> "t") @@ ("U" :> "u") @@ ("V" :> "v") @@ ("W" :> "w") @@ ("X" :> "x") @@ ("Y" :> "y") @@ ("Z" :> "z")

toLowerCase(s) ==
  [i \in 1..Len(s) |-> IF s[i] \in DOMAIN UpperToLower THEN UpperToLower[s[i]] ELSE s[i]]

\* String.prototype.includes
includes(s, pat) ==
  \E i \in 0..(Len(s) - Len(pat)) : \A j \in 1..Len(pat) : s[i + j] = pat[j]

PatFortnightly == <<"f", "o", "r", "t", "n", "i", "g", "h", "t", "l", "y">>
PatEvery == <<"e", "v", "e", "r", "y">>
PatWeekly == <<"w", "e", "e", "k", "l", "y">>
PatSunday == <<"s", "u", "n", "d", "a", "y">>
PatMonday == <<"m", "o", "n", "d", "a", "y">>
PatTuesday == <<"t", "u", "e", "s", "d", "a", "y">>
PatWednesday == <<"w", "e", "d", "n", "e", "s", "d", "a", "y">>
PatThursday == <<"t", "h", "u", "r", "s", "d", "a", "y">>
PatFriday == <<"f", "r", "i", "d", "a", "y">>
PatSaturday == <<"s", "a", "t", "u", "r", "d", "a", "y">>

\* the days table of parseDayOfWeek, in its iteration order (index - 1 = number)
days == <<PatSunday, PatMonday, PatTuesday, PatWednesday, PatThursday, PatFriday, PatSaturday>>

NULL == -1

\* variant: the text is searched as it is, without lower-casing
parseScheduleInterval_CaseSensitive(schedule) ==
  IF includes(schedule, PatFortnightly) THEN 14 ELSE 7

parseScheduleInterval(schedule) ==
  LET lower == toLowerCase(schedule)
  IN IF includes(lower, PatFortnightly) THEN 14
     ELSE IF includes(lower, PatEvery) \/ includes(lower, PatWeekly) THEN 7
     ELSE 7

\* variant: the scan stops at the first name of the table, found or not
parseDayOfWeek_SundayOnly(schedule) ==
  IF includes(toLowerCase(schedule), PatSunday) THEN 0 ELSE NULL

parseDayOfWeek(schedule) ==
  LET lower == toLowerCase(schedule)
      hits == {i \in 1..Len(days) : includes(lower, days[i])}
  IN IF hits = {} THEN NULL
     ELSE (CHOOSE i \in hits : \A j \in hits : i <= j) - 1

\* schedule texts the council site shows, and degenerate ones
TxtTuesdayFortnightly == <<"T", "u", "e", "s", "d", "a", "y", " ", "f", "o", "r", "t", "n", "i", "g", "h", "t", "l", "y">>
TxtEveryTuesday == <<"E", "v", "e", "r", "y", " ", "T", "u", "e", "s", "d", "a", "y">>
TxtFridayUpper == <<"F", "R", "I", "D", "A", "Y", " ", "F", "O", "R", "T", "N", "I", "G", "H", "T", "L", "Y">>
TxtWeekly == <<"W", "e", "e", "k", "l", "y">>
TxtFortnightlyOnly == <<"f", "o", "r", "t", "n", "i", "g", "h", "t", "l", "y">>
TxtMondayOrSunday == <<"M", "o", "n", "d", "a", "y", " ", "o", "r", " ", "S", "u", "n", "d", "a", "y">>
TxtEmpty == <<>>

ScheduleTexts ==
  {TxtTuesdayFortnightly, TxtEveryTuesday, TxtFridayUpper, TxtWeekly,
   TxtFortnightlyOnly, TxtMondayOrSunday, TxtEmpty}

\* property identifiers (UPRN): 12 digits, 10 digits, and one too short
UprnA == <<"1", "0", "0", "0", "6", "2", "0", "5", "8", "1", "7", "1">>
UprnB == <<"1", "0", "0", "0", "6", "2", "0", "5", "8", "2">>
UprnShort == <<"1", "2", "3">>

\* values of the calendar route's filter query parameter; searchParams.get
\* gives null without the parameter, and null and the empty string take the
\* same branches everywhere (filter || 'combined', !filter, === comparisons)
NoFilter == <<>>
FilterRecycling == <<"r", "e", "c", "y", "c", "l", "i", "n", "g">>
FilterGeneral == <<"g", "e", "n", "e", "r", "a", "l">>
FilterRecyclingCapital == <<"R", "e", "c", "y", "c", "l", "i", "n", "g">>

(***************************************************************************)
(* Occurrence projector                                                    *)
(***************************************************************************)
MAX_ITERATIONS == 200

\* variant: always the next occurrence of the weekday
findNearestDayOfWeek_Next(fromDate, targetDay) ==
  LET n == (targetDay - getDay(fromDate) + 7) % 7
  IN addDays(fromDate, n)

findNearestDayOfWeek(fromDate, targetDay) ==
  LET currentDay == getDay(fromDate)
      p == (currentDay - targetDay + 7) % 7
      n == (targetDay - currentDay + 7) % 7
      daysToPrev == IF p = 0 THEN 7 ELSE p
      daysToNext == IF n = 0 THEN 7 ELSE n
  IN IF currentDay = targetDay THEN fromDate
     ELSE IF daysToPrev <= daysToNext THEN addDays(fromDate, -daysToPrev)
     ELSE addDays(fromDate, daysToNext)

\* least element of a non-empty set of numbers
Least(S) == CHOOSE k \in S : \A j \in S : k <= j

\* first loop: "while (isBefore(current, today) && iterations < MAX_ITERATIONS)".
\* The body runs n times, n being the first count at which the guard fails.
AdvanceLoop(current, today, interval, iterations) ==
  LET n == Least({k \in 0..MAX_ITERATIONS :
                   ~(addDays(current, k * interval) < today
                     /\ iterations + k < MAX_ITERATIONS)})
  IN [current |-> addDays(current, n * interval), iterations |-> iterations + n]

\* variant: a date equal to the end date is not emitted
GenerateGuard_Exclusive(current, endDate, iterations) ==
  current < endDate /\ iterations < MAX_ITERATIONS

\* guard of the second loop
GenerateGuard(current, endDate, iterations) ==
  (current < endDate \/ current = endDate) /\ iterations < MAX_ITERATIONS

\* second loop: "while ((isBefore(current, endDate) || isEqual(current, endDate))
\* && iterations < MAX_ITERATIONS)": one push per run of the body
GenerateLoop(current, endDate, interval, iterations, results) ==
  LET n == Least({k \in 0..MAX_ITERATIONS :
                   ~GenerateGuard(addDays(current, k * interval), endDate, iterations + k)})
  IN results \o [k \in 1..n |->
                   [date |-> addDays(current, (k - 1) * interval), isOverride |-> FALSE]]

generateCollectionDatesLegacy(startDate, interval, today, endDate) ==
  LET adv == AdvanceLoop(startDate, today, interval, 0)
  IN GenerateLoop(adv.current, endDate, interval, adv.iterations, <<>>)

\* variant: the known date is emitted even when it has passed
IncludeKnown_Always(nextCollectionStart, today) == TRUE

\* the known date is emitted unless it lies before today
IncludeKnown(nextCollectionStart, today) == ~(nextCollectionStart < today)

\* variant: pattern dates start at the anchor itself
PatternStart_NoStep(anchorDate, interval) == anchorDate

\* pattern dates start one interval after the anchor
PatternStart(anchorDate, interval) == addDays(anchorDate, interval)

\* variant: the known date is always taken as shifted
IsShifted_Always(actualDayOfWeek, expectedDayOfWeek) == TRUE

IsShifted(actualDayOfWeek, expectedDayOfWeek) == actualDayOfWeek # expectedDayOfWeek

\* clock is the value of new Date() inside the call
generateCollectionDates(nextCollection, schedule, months, clock) ==
  LET interval == parseScheduleInterval(schedule)
      expectedDayOfWeek == parseDayOfWeek(schedule)
      today == startOfDay(clock)
      endDate == addMonths(today, months)
      nextCollectionStart == startOfDay(nextCollection)
      actualDayOfWeek == getDay(nextCollectionStart)
      isShifted == IsShifted(actualDayOfWeek, expectedDayOfWeek)
      anchorDate == IF isShifted
                    THEN findNearestDayOfWeek(nextCollectionStart, expectedDayOfWeek)
                    ELSE nextCollectionStart
      first == IF IncludeKnown(nextCollectionStart, today)
               THEN <<[date |-> nextCollectionStart, isOverride |-> isShifted]>>
               ELSE <<>>
      adv == AdvanceLoop(PatternStart(anchorDate, interval), today, interval, 0)
  IN IF expectedDayOfWeek = NULL
     THEN generateCollectionDatesLegacy(nextCollectionStart, interval, today, endDate)
     ELSE GenerateLoop(adv.current, endDate, interval, adv.iterations, first)

(***************************************************************************)
(* Store reads of the calendar route                                       *)
(* Table rows: collections [uprn, service_name, schedule, next_collection] *)
(*             overrides [uprn, service_name, original_date, actual_date]  *)
(* with the DATE columns as day counts.                                    *)
(***************************************************************************)
\* service names in the order of "ORDER BY service_name"
ServiceOrder ==
  <<"Food Collection", "Garden Waste Collection", "Paper/Card Collection",
    "Recycling Collection", "Refuse Collection">>

ServiceRank(name) == CHOOSE i \in 1..Len(ServiceOrder) : ServiceOrder[i] = name

\* the rows of a set as a sequence ordered by service_name
RECURSIVE OrderByServiceName(_)
OrderByServiceName(rows) ==
  IF rows = {} THEN <<>>
  ELSE LET r == CHOOSE x \in rows :
                  \A y \in rows : ServiceRank(x.service_name) <= ServiceRank(y.service_name)
       IN <<r>> \o OrderByServiceName(rows \ {r})

\* CURRENT_DATE of the database session
CurrentDate(clock) == DayOf(clock)

getCollections(tbl, uprn) ==
  LET rows == OrderByServiceName({r \in tbl : r.uprn = uprn})
  IN [i \in 1..Len(rows) |->
        [serviceName |-> rows[i].service_name, schedule |-> rows[i].schedule,
         nextCollection |-> FromSqlDate(rows[i].next_collection)]]

\* rows whose actual date has not passed (read in ascending actual_date order)
getCollectionOverrides(tbl, uprn, clock) ==
  {[serviceName |-> r.service_name, originalDate |-> FromSqlDate(r.original_date),
    actualDate |-> FromSqlDate(r.actual_date)] :
     r \in {x \in tbl : x.uprn = uprn /\ x.actual_date >= CurrentDate(clock)}}

\* service name -> (date key of the original date -> actual date); rows are
\* set in ascending actual_date order, so the latest actual date stays
BuildOverrideMap(rows) ==
  [s \in {r.serviceName : r \in rows} |->
    [k \in {formatDateKey(r.originalDate) : r \in {x \in rows : x.serviceName = s}} |->
      LET same == {x \in rows : x.serviceName = s /\ formatDateKey(x.originalDate) = k}
      IN (CHOOSE x \in same : \A y \in same : y.actualDate <= x.actualDate).actualDate]]

EmptyMap == [k \in {} |-> 0]

\* variant: an occurrence without override loses the projector's flag
ApplyDbOverrides_DropFlag(generatedDates, serviceOverrides) ==
  [j \in 1..Len(generatedDates) |->
    LET dateKey == formatDateKey(generatedDates[j].date)
    IN IF dateKey \in DOMAIN serviceOverrides
       THEN [date |-> serviceOverrides[dateKey], isOverride |-> TRUE]
       ELSE [date |-> generatedDates[j].date, isOverride |-> FALSE]]

\* variant: the override is matched but the projected date is kept
ApplyDbOverrides_KeepDate(generatedDates, serviceOverrides) ==
  [j \in 1..Len(generatedDates) |->
    LET dateKey == formatDateKey(generatedDates[j].date)
    IN IF dateKey \in DOMAIN serviceOverrides
       THEN [date |-> generatedDates[j].date, isOverride |-> TRUE]
       ELSE [date |-> generatedDates[j].date, isOverride |-> generatedDates[j].isOverride]]

\* the map callback of the route: a database override replaces the date
ApplyDbOverrides(generatedDates, serviceOverrides) ==
  [j \in 1..Len(generatedDates) |->
    LET dateKey == formatDateKey(generatedDates[j].date)
    IN IF dateKey \in DOMAIN serviceOverrides
       THEN [date |-> serviceOverrides[dateKey], isOverride |-> TRUE]
       ELSE [date |-> generatedDates[j].date, isOverride |-> generatedDates[j].isOverride]]

\* applyOverrides of the dates library: takes bare dates, so no flag comes in
applyOverrides(calculatedDates, overrideMap) ==
  [j \in 1..Len(calculatedDates) |->
    LET dateKey == formatDateKey(calculatedDates[j])
    IN IF dateKey \in DOMAIN overrideMap
       THEN [date |-> overrideMap[dateKey], isOverride |-> TRUE]
       ELSE [date |-> calculatedDates[j], isOverride |-> FALSE]]

CalendarMonths == 3

ServiceOverridesOf(overrideMap, serviceName) ==
  IF serviceName \in DOMAIN overrideMap THEN overrideMap[serviceName] ELSE EmptyMap

\* the route up to serviceEvents: one entry per stored collection
ServiceEvents(uprn, collTbl, ovTbl, clock) ==
  LET colls == getCollections(collTbl, uprn)
      overrideMap == BuildOverrideMap(getCollectionOverrides(ovTbl, uprn, clock))
  IN [i \in 1..Len(colls) |->
       [serviceName |-> colls[i].serviceName,
        events |-> ApplyDbOverrides(
                     generateCollectionDates(colls[i].nextCollection, colls[i].schedule,
                                             CalendarMonths, clock),
                     ServiceOverridesOf(overrideMap, colls[i].serviceName))]]

(***************************************************************************)
(* Calendar materializer                                                   *)
(***************************************************************************)
FOOD == "Food Collection"
RECYCLING == "Recycling Collection"
REFUSE == "Refuse Collection"
GARDEN == "Garden Waste Collection"
PAPER == "Paper/Card Collection"

SHORT_NAMES ==
  (REFUSE :> "General Waste") @@ (PAPER :> "Paper/Card") @@ (RECYCLING :> "Recycling")
    @@ (FOOD :> "Food") @@ (GARDEN :> "Garden")

\* the sequences over S of length at most n
SeqsUpTo(S, n) == UNION {[1..k -> S] : k \in 0..n}

\* the members of a sequence
Range(seq) == {seq[i] : i \in 1..Len(seq)}

\* the occurrences of all services in iteration order, each with its service
RECURSIVE FlattenEvents(_)
FlattenEvents(events) ==
  IF events = <<>> THEN <<>>
  ELSE [j \in 1..Len(Head(events).events) |->
          [serviceName |-> Head(events).serviceName,
           date |-> Head(events).events[j].date,
           isOverride |-> Head(events).events[j].isOverride]]
       \o FlattenEvents(Tail(events))

\* variant: occurrences are grouped by instant instead of calendar day
GroupKey_Instant(date) == <<date, 0, 0>>

\* key of the eventsByDate map
GroupKey(date) == formatDateKey(date)

\* the n-th smallest member of a set of numbers
NthOf(S, n) == CHOOSE i \in S : Cardinality({j \in S : j < i}) = n - 1

\* eventsByDate in Map insertion order: one entry per key, created by the
\* first occurrence with that key, services pushed in iteration order
EventsByDate(events) ==
  LET flat == FlattenEvents(events)
      firsts == {i \in 1..Len(flat) :
                   \A j \in 1..(i - 1) : GroupKey(flat[j].date) # GroupKey(flat[i].date)}
  IN [n \in 1..Cardinality(firsts) |->
       LET f == NthOf(firsts, n)
           members == {i \in 1..Len(flat) : GroupKey(flat[i].date) = GroupKey(flat[f].date)}
       IN [services |-> [k \in 1..Cardinality(members) |-> flat[NthOf(members, k)].serviceName],
           date |-> flat[f].date,
           hasOverride |-> \E i \in members : flat[i].isOverride]]

\* variant: food is never added to a day
InjectFood_Never(hasFood, services) == services

\* food is added to a collection day that is missing it
InjectFood(hasFood, services) ==
  IF hasFood /\ FOOD \notin Range(services) THEN Append(services, FOOD) ELSE services

\* variant: the general stream tests for the recycling service
DayEmitted_GeneralTestsRecycling(dayEvent, filter) ==
  /\ \E s \in Range(dayEvent.services) : s # FOOD
  /\ filter # NoFilter => RECYCLING \in Range(dayEvent.services)

\* a day group reaches generateDayEvent unless one of the "continue"s is taken
DayEmitted(dayEvent, filter) ==
  /\ \E s \in Range(dayEvent.services) : s # FOOD
  /\ filter = FilterRecycling => RECYCLING \in Range(dayEvent.services)
  /\ filter = FilterGeneral => REFUSE \in Range(dayEvent.services)

\* the letters a-z
LowerLetters == {UpperToLower[c] : c \in DOMAIN UpperToLower}

\* createHash('sha256').update(uprn).digest('hex').substring(0, 12), tabulated
\* with the digests of the identifiers the model uses
Sha256Hex12 ==
  (UprnA :> <<"0", "c", "a", "e", "9", "0", "d", "f", "d", "f", "e", "1">>)
    @@ (UprnB :> <<"1", "0", "1", "f", "6", "2", "f", "8", "6", "f", "9", "6">>)
    @@ (UprnShort :> <<"a", "6", "6", "5", "a", "4", "5", "9", "2", "0", "4", "2">>)

DigitChar == <<"0", "1", "2", "3", "4", "5", "6", "7", "8", "9">>

\* the characters of a YYYYMMDD value
DateChars(ymd) ==
  LET pow == <<10000000, 1000000, 100000, 10000, 1000, 100, 10, 1>>
  IN [i \in 1..8 |-> DigitChar[((ymd \div pow[i]) % 10) + 1]]

UidDomain == <<"@", "d", "o", "v", "e", "r", "b", "i", "n", "s", ".", "a", "p", "p">>

\* variant: the identifier carries the raw property identifier
generateEventUID_RawUprn(calendarType, date, uprn) ==
  SelectSeq(toLowerCase(calendarType), LAMBDA c : c \in LowerLetters)
    \o <<"-">> \o uprn \o <<"-">> \o DateChars(formatICalDate(date)) \o UidDomain

\* typeKey-uprnHash-dateKey@doverbins.app
generateEventUID(calendarType, date, uprn) ==
  LET typeKey == SelectSeq(toLowerCase(calendarType), LAMBDA c : c \in LowerLetters)
      dateKey == DateChars(formatICalDate(date))
      uprnHash == Sha256Hex12[uprn]
  IN typeKey \o <<"-">> \o uprnHash \o <<"-">> \o dateKey \o UidDomain

FilterCombined == <<"c", "o", "m", "b", "i", "n", "e", "d">>

\* the fields of one VEVENT
generateDayEvent(serviceNames, date, hasOverride, uprn, filter) ==
  [uid |-> generateEventUID(IF filter # NoFilter THEN filter ELSE FilterCombined, date, uprn),
   dtstart |-> formatICalDate(date),
   dtend |-> formatICalDate(addDays(date, 1)),
   services |-> serviceNames,
   binNames |-> [k \in 1..Len(serviceNames) |-> SHORT_NAMES[serviceNames[k]]],
   changed |-> hasOverride,
   color |-> IF RECYCLING \in Range(serviceNames) THEN "green"
             ELSE IF REFUSE \in Range(serviceNames) THEN "gray" ELSE "blue"]

\* the VEVENTs of the document, in order
generateICalendar(events, options) ==
  LET eventsByDate == EventsByDate(events)
      hasFood == \E i \in 1..Len(events) : events[i].serviceName = FOOD
      kept == {i \in 1..Len(eventsByDate) : DayEmitted(eventsByDate[i], options.filter)}
  IN [n \in 1..Cardinality(kept) |->
       LET dayEvent == eventsByDate[NthOf(kept, n)]
       IN generateDayEvent(InjectFood(hasFood, dayEvent.services), dayEvent.date,
                           dayEvent.hasOverride, options.uprn, options.filter)]

(***************************************************************************)
(* Line folding                                                            *)
(***************************************************************************)
MAX_BYTES == 75

\* characters (code points) of a line, named by code point where not ASCII,
\* with their UTF-8 lengths
Utf8Length ==
  ("a" :> 1) @@ (" " :> 1) @@ ("U+00E9" :> 2) @@ ("U+20AC" :> 3) @@ ("U+1F600" :> 4)
    @@ ("CR" :> 1) @@ ("LF" :> 1)

\* Buffer.byteLength(text, 'utf-8')
byteLength(text) ==
  Cardinality({p \in (1..Len(text)) \X (1..4) : p[2] <= Utf8Length[text[p[1]]]})

\* result.join('\r\n')
RECURSIVE JoinCRLF(_)
JoinCRLF(lines) ==
  IF Len(lines) = 0 THEN <<>>
  ELSE IF Len(lines) = 1 THEN lines[1]
  ELSE lines[1] \o <<"CR", "LF">> \o JoinCRLF(Tail(lines))

\* variant: a continuation line starts without the space
ContinuationStart_NoSpace(char) == <<char>>

\* currentLine = ' ' + char
ContinuationStart(char) == <<" ", char>>

\* lineBytes and the loop variables of foldLine before the first character
FoldStart(line) ==
  [op |-> "foldLine", done |-> FALSE, line |-> line, lineBytes |-> byteLength(line),
   pos |-> 1, result |-> <<>>,
   currentLine |-> <<>>, currentBytes |-> 0, isFirstLine |-> TRUE]

\* a line of at most MAX_BYTES bytes is returned as it is
FoldShort ==
  /\ call.op = "foldLine"
  /\ ~call.done
  /\ call.lineBytes <= MAX_BYTES
  /\ call' = [call EXCEPT !.done = TRUE]
  /\ ret' = call.line
  /\ UNCHANGED <<now, storeVars>>

\* one iteration of "for (const char of line)"
FoldChar ==
  /\ call.op = "foldLine"
  /\ ~call.done
  /\ call.pos <= Len(call.line)
  /\ call.lineBytes > MAX_BYTES
  /\ LET char == call.line[call.pos]
         charBytes == Utf8Length[char]
         maxForThisLine == IF call.isFirstLine THEN MAX_BYTES ELSE MAX_BYTES - 1
     IN call' = IF call.currentBytes + charBytes > maxForThisLine
                THEN [call EXCEPT !.pos = @ + 1,
                                  !.result = Append(@, call.currentLine),
                                  !.currentLine = ContinuationStart(char),
                                  !.currentBytes = 1 + charBytes,
                                  !.isFirstLine = FALSE]
                ELSE [call EXCEPT !.pos = @ + 1,
                                  !.currentLine = Append(@, char),
                                  !.currentBytes = @ + charBytes]
  /\ UNCHANGED <<now, storeVars, ret>>

\* after the loop: the last physical line is pushed and the lines are joined
FoldJoin ==
  /\ call.op = "foldLine"
  /\ ~call.done
  /\ call.pos > Len(call.line)
  /\ call.lineBytes > MAX_BYTES
  /\ LET result == IF call.currentLine # <<>> THEN Append(call.result, call.currentLine)
                   ELSE call.result
     IN /\ ret' = JoinCRLF(result)
        /\ call' = [call EXCEPT !.done = TRUE, !.result = result]
  /\ UNCHANGED <<now, storeVars>>

(***************************************************************************)
(* Idle values of the parts of the state a specification does not use      *)
(***************************************************************************)
IdleRun ==
  [pc |-> "idle", n |-> 0, subs |-> <<>>, idx |-> 0, services |-> <<>>,
   existing |-> <<>>, k |-> 0, successCount |-> 0, errorCount |-> 0, warned |-> 0,
   summary |-> "none"]
NoCall == [op |-> "none", done |-> FALSE]

StoreIdle ==
  /\ subscriptions = <<>>
  /\ collections = {}
  /\ overrides = {}
  /\ run = IdleRun
  /\ issued = 0

(***************************************************************************)
(* Store writes                                                            *)
(***************************************************************************)
\* variant: a plain INSERT that leaves an earlier row with the same key
UpsertOverride_Insert(tbl, uprn, serviceName, originalDate, actualDate) ==
  tbl \cup {[uprn |-> uprn, service_name |-> serviceName,
             original_date |-> ToSqlDate(originalDate),
             actual_date |-> ToSqlDate(actualDate)]}

\* INSERT INTO collection_overrides ... ON CONFLICT (uprn, service_name,
\* original_date) DO UPDATE SET actual_date
UpsertOverride(tbl, uprn, serviceName, originalDate, actualDate) ==
  {r \in tbl : ~(r.uprn = uprn /\ r.service_name = serviceName
                   /\ r.original_date = ToSqlDate(originalDate))}
    \cup {[uprn |-> uprn, service_name |-> serviceName,
           original_date |-> ToSqlDate(originalDate),
           actual_date |-> ToSqlDate(actualDate)]}

\* variant: ON CONFLICT updates the date only
UpsertCollection_DateOnly(tbl, uprn, serviceName, schedule, nextCollection) ==
  {r \in tbl : ~(r.uprn = uprn /\ r.service_name = serviceName)}
    \cup {[uprn |-> uprn, service_name |-> serviceName,
           schedule |-> IF \E r \in tbl : r.uprn = uprn /\ r.service_name = serviceName
                        THEN (CHOOSE r \in tbl : r.uprn = uprn /\ r.service_name = serviceName).schedule
                        ELSE schedule,
           next_collection |-> ToSqlDate(nextCollection)]}

\* INSERT INTO collections ... ON CONFLICT (uprn, service_name) DO UPDATE
UpsertCollection(tbl, uprn, serviceName, schedule, nextCollection) ==
  {r \in tbl : ~(r.uprn = uprn /\ r.service_name = serviceName)}
    \cup {[uprn |-> uprn, service_name |-> serviceName, schedule |-> schedule,
           next_collection |-> ToSqlDate(nextCollection)]}

\* UPDATE subscriptions SET last_fetched = NOW() WHERE uprn = ...
TouchSubscription(subs, uprn, clock) ==
  [i \in 1..Len(subs) |->
     IF subs[i].uprn = uprn THEN [subs[i] EXCEPT !.last_fetched = clock] ELSE subs[i]]

\* CURRENT_DATE - INTERVAL '1 year'
OneYearAgo(clock) == DayOf(addMonths(startOfDay(clock), -12))

\* variant: the row dated exactly one year ago is deleted too
PurgeOverrides_Inclusive(tbl, clock) == {r \in tbl : ~(r.actual_date <= OneYearAgo(clock))}

\* DELETE FROM collection_overrides WHERE actual_date < CURRENT_DATE - 1 year
PurgeOverrides(tbl, clock) == {r \in tbl : ~(r.actual_date < OneYearAgo(clock))}

(***************************************************************************)
(* Council site: what a scrape of a property page returns                  *)
(***************************************************************************)
\* a scraped row: service name, schedule text and the day shown as next
\* collection (DD/MM/YYYY)
ScrapeEntries ==
  {[serviceName |-> REFUSE, schedule |-> TxtEveryTuesday, day |-> BaseDay + k] :
     k \in {0, 8, 9}}
    \cup {[serviceName |-> RECYCLING, schedule |-> TxtTuesdayFortnightly,
           day |-> BaseDay + 1]}

MaxScrape == 2

\* a page that still shows a collection of a year ago as the next one: the
\* day one year before the first day of the model, and the day before that
StaleEntries ==
  {[serviceName |-> RECYCLING, schedule |-> TxtTuesdayFortnightly, day |-> BaseDay - k] :
     k \in {365, 366}}

\* the pages the council site may show for a property: any rows for a
\* well-formed UPRN of the first household, the recycling row or nothing for
\* the second, nothing for an identifier the site does not know
ScrapeResults(uprn) ==
  IF uprn = UprnA THEN SeqsUpTo(ScrapeEntries, MaxScrape)
  ELSE IF uprn = UprnB
       THEN {<<>>, <<[serviceName |-> RECYCLING, schedule |-> TxtTuesdayFortnightly,
                      day |-> BaseDay + 1]>>}
       ELSE {<<>>}

\* parseUKDate of the scheduled function: new Date(year, month - 1, day)
parseUKDateLocal(day) == day * HoursPerDay

\* parseUKDate of the scraper library: noon UTC of the day
parseUKDateNoon(day) == day * HoursPerDay + 12

(***************************************************************************)
(* Subscribe request                                                       *)
(***************************************************************************)
Digits == {"0", "1", "2", "3", "4", "5", "6", "7", "8", "9"}

\* /^\d{10,12}$/
uprnRegexTest(uprn) ==
  Len(uprn) >= 10 /\ Len(uprn) <= 12 /\ \A i \in 1..Len(uprn) : uprn[i] \in Digits

Uprns == {UprnA, UprnB}
Addresses == {"1 High Street"}
Postcodes == {"CT16 1AA"}

MaxIssued == 2

\* variant: on conflict the row also takes the fresh token
createSubscription_ReplaceToken(subs, uprn, address, postcode, token) ==
  IF \E i \in 1..Len(subs) : subs[i].uprn = uprn
  THEN [i \in 1..Len(subs) |->
          IF subs[i].uprn = uprn
          THEN [subs[i] EXCEPT !.address = address, !.postcode = postcode,
                               !.calendar_token = token]
          ELSE subs[i]]
  ELSE Append(subs, [uprn |-> uprn, address |-> address, postcode |-> postcode,
                     calendar_token |-> token, last_fetched |-> NULL])

\* INSERT INTO subscriptions ... ON CONFLICT (uprn) DO UPDATE SET address,
\* postcode: an existing row keeps its token, a new row gets the fresh one
createSubscription(subs, uprn, address, postcode, token) ==
  IF \E i \in 1..Len(subs) : subs[i].uprn = uprn
  THEN [i \in 1..Len(subs) |->
          IF subs[i].uprn = uprn
          THEN [subs[i] EXCEPT !.address = address, !.postcode = postcode]
          ELSE subs[i]]
  ELSE Append(subs, [uprn |-> uprn, address |-> address, postcode |-> postcode,
                     calendar_token |-> token, last_fetched |-> NULL])

\* the loop of upsertCollections
RECURSIVE upsertCollections(_, _, _)
upsertCollections(tbl, uprn, services) ==
  IF services = <<>> THEN tbl
  ELSE upsertCollections(
         UpsertCollection(tbl, uprn, Head(services).serviceName, Head(services).schedule,
                          parseUKDateNoon(Head(services).day)),
         uprn, Tail(services))

\* the store statements of POST /api/subscribe once the request is accepted
SubscribeStoreUpTo(maxIssued, uprn, address, postcode, result) ==
  /\ issued < maxIssued
  /\ uprnRegexTest(uprn)
  /\ Len(result) > 0
  /\ issued' = issued + 1
  /\ subscriptions' =
       TouchSubscription(createSubscription(subscriptions, uprn, address, postcode, issued + 1),
                         uprn, now)
  /\ collections' = upsertCollections(collections, uprn, result)
  /\ UNCHANGED <<now, overrides, run>>

\* POST /api/subscribe that reaches the store
Subscribe(uprn, address, postcode, result) ==
  /\ SubscribeStoreUpTo(MaxIssued, uprn, address, postcode, result)
  /\ UNCHANGED <<call, ret>>

\* POST /api/subscribe answered 400 (malformed UPRN) or 404 (no services)
SubscribeRejected(uprn, result) ==
  /\ ~uprnRegexTest(uprn) \/ Len(result) = 0
  /\ UNCHANGED <<now, subscriptions, collections, overrides, run, issued, call, ret>>

(***************************************************************************)
(* Scheduled refresh: one step per awaited statement                       *)
(***************************************************************************)
MaxRuns == 1

\* SELECT uprn, address FROM subscriptions ORDER BY created_at, in the
\* maxRuns first invocations of the scheduled function
RefreshStartUpTo(maxRuns) ==
  /\ run.pc = "idle"
  /\ run.n < maxRuns
  /\ run' = [IdleRun EXCEPT !.pc = IF Len(subscriptions) = 0 THEN "purge" ELSE "scrape",
                            !.n = run.n + 1,
                            !.subs = [i \in 1..Len(subscriptions) |-> subscriptions[i].uprn],
                            !.idx = 1]
  /\ UNCHANGED <<now, subscriptions, collections, overrides, issued, call, ret>>

RefreshStart == RefreshStartUpTo(MaxRuns)

\* the run state at the next iteration of the subscription loop
NextProperty(r) ==
  [r EXCEPT !.pc = IF r.idx >= Len(r.subs) THEN "purge" ELSE "scrape",
            !.idx = r.idx + 1, !.services = <<>>, !.existing = <<>>, !.k = 0]

\* variant: the catch block ends the run
Caught_EndsRun(r) ==
  [r EXCEPT !.pc = "purge", !.errorCount = r.errorCount + 1]

\* variant: the catch block forgets to count
Caught_NoCount(r) == NextProperty(r)

\* the catch block of the subscription loop
Caught(r) == NextProperty([r EXCEPT !.errorCount = r.errorCount + 1])

\* scrapePropertyCollections answered result; zero services: console.warn
\* and continue
RefreshScraped(result) ==
  /\ run.pc = "scrape"
  /\ run' = IF Len(result) = 0 THEN NextProperty([run EXCEPT !.warned = run.warned + 1])
            ELSE [run EXCEPT !.pc = "select",
                             !.services = [i \in 1..Len(result) |->
                                 [serviceName |-> result[i].serviceName,
                                  schedule |-> result[i].schedule,
                                  nextCollection |-> parseUKDateLocal(result[i].day)]]]
  /\ UNCHANGED <<now, subscriptions, collections, overrides, issued, call, ret>>

RefreshScrape ==
  /\ run.pc = "scrape"
  /\ \E result \in ScrapeResults(run.subs[run.idx]) : RefreshScraped(result)

\* existingMap: the property's collection rows by service name
ExistingMap(tbl, uprn) ==
  LET rows == {r \in tbl : r.uprn = uprn}
  IN [s \in {r.service_name : r \in rows} |->
        LET r == CHOOSE x \in rows : x.service_name = s
        IN [schedule |-> r.schedule, nextCollection |-> FromSqlDate(r.next_collection)]]

\* SELECT ... FROM collections WHERE uprn
RefreshSelect ==
  /\ run.pc = "select"
  /\ run' = [run EXCEPT !.pc = "service", !.k = 1,
                        !.existing = ExistingMap(collections, run.subs[run.idx])]
  /\ UNCHANGED <<now, subscriptions, collections, overrides, issued, call, ret>>

calculateExpectedNext(lastDate, schedule) ==
  LET lower == toLowerCase(schedule)
      interval == IF includes(lower, PatFortnightly) THEN 14 ELSE 7
  IN addDays(lastDate, interval)

\* variant: only a difference of more than one day counts
HolidayAdjusted_MoreThanADay(actualNext, expectedNext) ==
  Abs(actualNext - expectedNext) > HoursPerDay

\* diffDays >= 1, diffDays being the difference in milliseconds over a day's
HolidayAdjusted(actualNext, expectedNext) ==
  Abs(actualNext - expectedNext) >= 1 * HoursPerDay

\* the override part of the service loop body
RefreshService ==
  /\ run.pc = "service"
  /\ LET service == run.services[run.k]
         uprn == run.subs[run.idx]
     IN IF service.serviceName \in DOMAIN run.existing
        THEN LET prev == run.existing[service.serviceName]
                 expectedNext == calculateExpectedNext(prev.nextCollection, prev.schedule)
                 actualNext == service.nextCollection
             IN overrides' =
                  IF HolidayAdjusted(actualNext, expectedNext)
                  THEN UpsertOverride(overrides, uprn, service.serviceName,
                                      expectedNext, actualNext)
                  ELSE overrides
        ELSE overrides' = overrides
  /\ run' = [run EXCEPT !.pc = "upsert"]
  /\ UNCHANGED <<now, subscriptions, collections, issued, call, ret>>

\* the collection upsert of the service loop body
RefreshUpsert ==
  /\ run.pc = "upsert"
  /\ LET service == run.services[run.k]
     IN collections' = UpsertCollection(collections, run.subs[run.idx], service.serviceName,
                                        service.schedule, service.nextCollection)
  /\ run' = IF run.k < Len(run.services)
            THEN [run EXCEPT !.pc = "service", !.k = run.k + 1]
            ELSE [run EXCEPT !.pc = "touch"]
  /\ UNCHANGED <<now, subscriptions, overrides, issued, call, ret>>

\* UPDATE subscriptions SET last_fetched; successCount++
RefreshTouch ==
  /\ run.pc = "touch"
  /\ subscriptions' = TouchSubscription(subscriptions, run.subs[run.idx], now)
  /\ run' = [run EXCEPT !.pc = "sleep", !.successCount = run.successCount + 1]
  /\ UNCHANGED <<now, collections, overrides, issued, call, ret>>

\* await sleep(500), then the next subscription
RefreshSleep ==
  /\ run.pc = "sleep"
  /\ run' = NextProperty(run)
  /\ UNCHANGED <<now, subscriptions, collections, overrides, issued, call, ret>>

\* the fetch or a statement of the current property throws: errorCount++
RefreshFail ==
  /\ run.pc \in {"scrape", "select", "service", "upsert", "touch"}
  /\ run.pc = "service" =>
       LET service == run.services[run.k]
       IN /\ service.serviceName \in DOMAIN run.existing
          /\ HolidayAdjusted(service.nextCollection,
               calculateExpectedNext(run.existing[service.serviceName].nextCollection,
                                     run.existing[service.serviceName].schedule))
  /\ run' = Caught(run)
  /\ UNCHANGED <<now, subscriptions, collections, overrides, issued, call, ret>>

\* the clean-up DELETE and the summary response
RefreshPurge ==
  /\ run.pc = "purge"
  /\ overrides' = PurgeOverrides(overrides, now)
  /\ run' = [run EXCEPT !.pc = "idle", !.summary = "Refresh complete"]
  /\ UNCHANGED <<now, subscriptions, collections, issued, call, ret>>

\* the clean-up DELETE throws: the outer catch answers 500
RefreshPurgeFail ==
  /\ run.pc = "purge"
  /\ run' = [run EXCEPT !.pc = "idle", !.summary = "Refresh failed"]
  /\ UNCHANGED <<now, subscriptions, collections, overrides, issued, call, ret>>

MaxTicks == 1

\* a day passes
Tick ==
  /\ now < (BaseDay + MaxTicks) * HoursPerDay
  /\ now' = now + HoursPerDay
  /\ UNCHANGED <<storeVars, call, ret>>

Init ==
  /\ now = BaseDay * HoursPerDay + 6
  /\ subscriptions = <<>>
  /\ collections = {}
  /\ overrides = {}
  /\ run = IdleRun
  /\ issued = 0
  /\ call = NoCall
  /\ ret = <<>>

Next ==
  \/ \E uprn \in Uprns : \E address \in Addresses : \E postcode \in Postcodes :
       \E result \in ScrapeResults(uprn) : Subscribe(uprn, address, postcode, result)
  \/ \E uprn \in Uprns \cup {UprnShort} : \E result \in ScrapeResults(uprn) :
       SubscribeRejected(uprn, result)
  \/ RefreshStart
  \/ RefreshScrape
  \/ RefreshSelect
  \/ RefreshService
  \/ RefreshUpsert
  \/ RefreshTouch
  \/ RefreshSleep
  \/ RefreshFail
  \/ RefreshPurge
  \/ RefreshPurgeFail
  \/ Tick

Spec == Init /\ [][Next]_vars

(***************************************************************************)
(* Specification SpecProject: the projector on bounded inputs              *)
(***************************************************************************)
MaxBack == 8
MaxAhead == 8
StaleDays == {1337, 1393, 1400, 1407, 2800, 2814, 3000}
FarDays == {95, 120}
HorizonMonths == {1, 3}

\* values of new Date(): mid-morning, midnight, and the last hour of 2025-11-30
Clocks == {BaseDay * HoursPerDay + 9, (BaseDay + 1) * HoursPerDay,
           (BaseDay - 22) * HoursPerDay + 23}

KnownDates(clock) ==
  {addDays(startOfDay(clock), k) + h : k \in (-MaxBack)..MaxAhead, h \in {0, 12}}
    \cup {addDays(startOfDay(clock), -k) : k \in StaleDays}
    \cup {addDays(startOfDay(clock), k) : k \in FarDays}

\* the inputs are drawn by the initial state; the call is still to be made
InitProject ==
  /\ StoreIdle
  /\ now \in Clocks
  /\ \E known \in KnownDates(now) : \E schedule \in ScheduleTexts :
       \E months \in HorizonMonths :
         call = [op |-> "generateCollectionDates", done |-> FALSE,
                 nextCollection |-> known, schedule |-> schedule, months |-> months]
  /\ ret = <<>>

Project ==
  /\ call.op = "generateCollectionDates"
  /\ ~call.done
  /\ call' = [call EXCEPT !.done = TRUE]
  /\ ret' = generateCollectionDates(call.nextCollection, call.schedule, call.months, now)
  /\ UNCHANGED <<now, storeVars>>

NextProject == Project

SpecProject == InitProject /\ [][NextProject]_vars

Projected == call.op = "generateCollectionDates" /\ call.done
ProjToday == startOfDay(now)
ProjKnown == startOfDay(call.nextCollection)
ProjDow == parseDayOfWeek(call.schedule)
ProjInterval == IF includes(toLowerCase(call.schedule), PatFortnightly) THEN 14 ELSE 7

\* C3: the projected sequence is strictly ascending by date, in pattern mode
\* and in legacy mode, so no calendar day occurs twice in it.
C3_StrictlyAscending ==
  Projected =>
    /\ \A i \in 1..(Len(ret) - 1) : ret[i].date < ret[i + 1].date
    /\ \A i, j \in 1..Len(ret) :
         i # j => formatDateKey(ret[i].date) # formatDateKey(ret[j].date)

\* a shifted known date followed by at least two pattern dates
C3_Witness ==
  /\ Projected
  /\ ProjDow # NULL
  /\ Len(ret) >= 3
  /\ ret[1].isOverride

\* C4: no projected occurrence lies before today, whatever the known date,
\* also when the 200-step cap stops the fast-forward short of today.
C4_NoPastOccurrence ==
  Projected => \A i \in 1..Len(ret) : ret[i].date >= ProjToday

\* the cap is reached: 200 steps from the known date still end before today
C4_Witness ==
  /\ Projected
  /\ addDays(ProjKnown, (MAX_ITERATIONS + 1) * ProjInterval) < ProjToday
  /\ ret = <<>>

\* C5: pattern mode with a known date today or later on another weekday than
\* the anchor: the known date comes first, flagged; the rest are unflagged,
\* on the anchor weekday, starting one interval after the anchor date and
\* spaced by the interval.
C5_ShiftedKnownThenPattern ==
  (Projected /\ ProjDow # NULL /\ ProjKnown >= ProjToday /\ getDay(ProjKnown) # ProjDow) =>
    /\ Len(ret) >= 1
    /\ ret[1] = [date |-> ProjKnown, isOverride |-> TRUE]
    /\ \A i \in 2..Len(ret) :
         /\ ~ret[i].isOverride
         /\ getDay(ret[i].date) = ProjDow
         /\ i = 2 => \E k \in (-3)..3 :
                       /\ getDay(addDays(ProjKnown, k)) = ProjDow
                       /\ ret[2].date = addDays(addDays(ProjKnown, k), ProjInterval)
         /\ i > 2 => ret[i].date = addDays(ret[i - 1].date, ProjInterval)

\* "Tuesday fortnightly" with a Monday known date: Monday, then Tuesdays
C5_Witness ==
  /\ Projected
  /\ call.schedule = TxtTuesdayFortnightly
  /\ ProjKnown >= ProjToday
  /\ getDay(ProjKnown) = 1
  /\ Len(ret) >= 3
  /\ ret[1].isOverride
  /\ ret[2].date = addDays(ProjKnown, 15)

\* C6: only the known date can be flagged by the projector, and only when
\* its weekday differs from the anchor weekday; with equal weekdays or with
\* no weekday in the text nothing is flagged.
C6_OnlyShiftedKnownFlagged ==
  Projected => \A i \in 1..Len(ret) :
    ret[i].isOverride =>
      /\ ret[i].date = ProjKnown
      /\ ProjDow # NULL
      /\ getDay(ProjKnown) # ProjDow

\* the known date is emitted on the anchor weekday, unflagged, with followers
C6_Witness ==
  /\ Projected
  /\ ProjDow # NULL
  /\ getDay(ProjKnown) = ProjDow
  /\ Len(ret) >= 2
  /\ ret[1] = [date |-> ProjKnown, isOverride |-> FALSE]

\* the pattern date the known date stands for: the day within three days of
\* it that falls on the schedule's weekday
ProjAnchor ==
  CHOOSE a \in {addDays(ProjKnown, k) : k \in (-3)..3} : getDay(a) = ProjDow

\* the date the steps are counted from, and the first step that counts
ProjStart == IF ProjDow = NULL THEN ProjKnown ELSE ProjAnchor
ProjFirstStep == IF ProjDow = NULL THEN 0 ELSE 1
ProjEnd == addMonths(ProjToday, call.months)

\* the dates start + k * interval, k from the first step, inside the horizon
ProjExpected ==
  {t \in {addDays(ProjToday, j) : j \in 0..93} :
     /\ t <= ProjEnd
     /\ t >= addDays(ProjStart, ProjFirstStep * ProjInterval)
     /\ (t - ProjStart) % (ProjInterval * HoursPerDay) = 0}

\* steps to get from the first date of the sequence to today or later
ProjFastForward ==
  LET first == addDays(ProjStart, ProjFirstStep * ProjInterval)
      gap == (ProjToday - first) \div HoursPerDay
  IN IF gap <= 0 THEN 0 ELSE (gap + ProjInterval - 1) \div ProjInterval

\* the occurrences emitted by stepping: all but the known date put in front
ProjStepped ==
  IF ProjDow # NULL /\ ProjKnown >= ProjToday THEN Tail(ret) ELSE ret

SteppedAreExpected ==
  /\ {ProjStepped[i].date : i \in 1..Len(ProjStepped)} = ProjExpected
  /\ \A i \in 1..Len(ProjStepped) : ~ProjStepped[i].isOverride

\* C24 as stated: whenever the fast-forward takes fewer than 200 steps, the
\* stepped occurrences are exactly the dates of the sequence from today to
\* the horizon.
C24_AllInHorizonWhenFastForwardBelowCap ==
  (Projected /\ ProjFastForward < MAX_ITERATIONS) => SteppedAreExpected

\* C24 amended: whenever the fast-forward and the emission take at most 200
\* steps together, the stepped occurrences are exactly the dates of the
\* sequence from today to the horizon.
C24_AllInHorizonWhenStepsWithinCap ==
  (Projected /\ ProjFastForward + Cardinality(ProjExpected) <= MAX_ITERATIONS)
    => SteppedAreExpected

\* a stale known date: fast-forwarded, then every date up to the horizon
C24_Witness ==
  /\ Projected
  /\ ProjFastForward >= 190
  /\ ProjFastForward + Cardinality(ProjExpected) <= MAX_ITERATIONS
  /\ Len(ret) >= 4

(***************************************************************************)
(* Specification SpecLoop: generateCollectionDates with its two loops run  *)
(* one iteration per step, on stale and recent known dates                 *)
(***************************************************************************)
LoopStaleDays == {0, 9, 1393, 1400, 1407, 3000}
LoopTexts == {TxtWeekly, TxtFortnightlyOnly, TxtEveryTuesday, TxtTuesdayFortnightly}

InitLoop ==
  /\ StoreIdle
  /\ now = BaseDay * HoursPerDay + 9
  /\ \E k \in LoopStaleDays \cup {-5} : \E schedule \in LoopTexts :
       \E months \in HorizonMonths :
         call = [op |-> "loop", pc |-> "entry",
                 nextCollection |-> addDays(startOfDay(now), -k) + 12,
                 schedule |-> schedule, months |-> months]
  /\ ret = <<>>

\* the statements before the first loop; legacy mode starts from the known
\* date with no result, pattern mode one interval after the anchor
LoopEnter ==
  /\ call.op = "loop"
  /\ call.pc = "entry"
  /\ LET interval == parseScheduleInterval(call.schedule)
         expectedDayOfWeek == parseDayOfWeek(call.schedule)
         today == startOfDay(now)
         nextCollectionStart == startOfDay(call.nextCollection)
         isShifted == IsShifted(getDay(nextCollectionStart), expectedDayOfWeek)
         anchorDate == IF isShifted
                       THEN findNearestDayOfWeek(nextCollectionStart, expectedDayOfWeek)
                       ELSE nextCollectionStart
         legacy == expectedDayOfWeek = NULL
     IN /\ call' = [op |-> "loop", pc |-> "advance",
                    nextCollection |-> call.nextCollection,
                    schedule |-> call.schedule, months |-> call.months,
                    interval |-> interval, today |-> today,
                    endDate |-> addMonths(today, call.months),
                    current |-> IF legacy THEN nextCollectionStart
                                ELSE PatternStart(anchorDate, interval),
                    iterations |-> 0]
        /\ ret' = IF ~legacy /\ IncludeKnown(nextCollectionStart, today)
                  THEN <<[date |-> nextCollectionStart, isOverride |-> isShifted]>>
                  ELSE <<>>
  /\ UNCHANGED <<now, storeVars>>

\* variant: the first loop runs until today is reached
AdvanceGuard_NoCap(current, today, iterations) == current < today

\* guard of the first loop
AdvanceGuard(current, today, iterations) ==
  current < today /\ iterations < MAX_ITERATIONS

\* one run of the body of the first loop
AdvanceStep ==
  /\ call.op = "loop"
  /\ call.pc = "advance"
  /\ AdvanceGuard(call.current, call.today, call.iterations)
  /\ call' = [call EXCEPT !.current = addDays(call.current, call.interval),
                          !.iterations = call.iterations + 1]
  /\ UNCHANGED <<now, storeVars, ret>>

\* the guard of the first loop fails: on to the second loop
AdvanceDone ==
  /\ call.op = "loop"
  /\ call.pc = "advance"
  /\ ~AdvanceGuard(call.current, call.today, call.iterations)
  /\ call' = [call EXCEPT !.pc = "generate"]
  /\ UNCHANGED <<now, storeVars, ret>>

\* one run of the body of the second loop
GenerateStep ==
  /\ call.op = "loop"
  /\ call.pc = "generate"
  /\ GenerateGuard(call.current, call.endDate, call.iterations)
  /\ ret' = Append(ret, [date |-> call.current, isOverride |-> FALSE])
  /\ call' = [call EXCEPT !.current = addDays(call.current, call.interval),
                          !.iterations = call.iterations + 1]
  /\ UNCHANGED <<now, storeVars>>

\* the guard of the second loop fails: return results
GenerateDone ==
  /\ call.op = "loop"
  /\ call.pc = "generate"
  /\ ~GenerateGuard(call.current, call.endDate, call.iterations)
  /\ call' = [call EXCEPT !.pc = "done"]
  /\ UNCHANGED <<now, storeVars, ret>>

NextLoop == LoopEnter \/ AdvanceStep \/ AdvanceDone \/ GenerateStep \/ GenerateDone

\* the function is sequential code: a step that can be taken is taken
SpecLoop == InitLoop /\ [][NextLoop]_vars /\ WF_vars(NextLoop)

InLoop == call.op = "loop" /\ call.pc \in {"advance", "generate"}
LoopReturned == call.op = "loop" /\ call.pc = "done"

\* C25: projection terminates for every known date, schedule and horizon:
\* the loops never count more than 200 steps, and once 200 steps are counted
\* the date is advanced no further and no occurrence is emitted, also when
\* today or the horizon has not been reached.
C25_ProjectionTerminates ==
  /\ [](InLoop => call.iterations <= MAX_ITERATIONS)
  /\ [][(InLoop /\ call.iterations >= MAX_ITERATIONS)
         => (ret' = ret /\ call'.current = call.current)]_vars
  /\ <>LoopReturned

\* a known date 3000 days back, weekly: the cap stops the first loop before
\* today and nothing is emitted
C25_Witness ==
  /\ LoopReturned
  /\ call.iterations = MAX_ITERATIONS
  /\ call.current < call.today
  /\ ret = <<>>

\* the stepwise run returns what the closed form of the loops gives
LoopAgreesWithClosedForm ==
  LoopReturned =>
    ret = generateCollectionDates(call.nextCollection, call.schedule, call.months, now)

(***************************************************************************)
(* Specification SpecNearest: findNearestDayOfWeek on bounded dates        *)
(***************************************************************************)
MaxSpan == 13

InitNearest ==
  /\ StoreIdle
  /\ now = BaseDay * HoursPerDay + 9
  /\ \E k \in 0..MaxSpan : \E h \in {0, 12} : \E targetDay \in 0..6 :
       call = [op |-> "findNearestDayOfWeek", done |-> FALSE,
               fromDate |-> addDays(BaseDay * HoursPerDay, k) + h,
               targetDay |-> targetDay]
  /\ ret = <<>>

Nearest ==
  /\ call.op = "findNearestDayOfWeek"
  /\ ~call.done
  /\ call' = [call EXCEPT !.done = TRUE]
  /\ ret' = findNearestDayOfWeek(call.fromDate, call.targetDay)
  /\ UNCHANGED <<now, storeVars>>

NextNearest == Nearest

SpecNearest == InitNearest /\ [][NextNearest]_vars

NearestDone == call.op = "findNearestDayOfWeek" /\ call.done

\* the last occurrence of the weekday before the date, the first one after it
PreviousOn(d, w) ==
  CHOOSE t \in {addDays(d, -k) : k \in 1..7} : getDay(t) = w
NextOn(d, w) ==
  CHOOSE t \in {addDays(d, k) : k \in 1..7} : getDay(t) = w

\* C26: findNearestDayOfWeek returns the date itself when it falls on the
\* target weekday; otherwise the result falls on the target weekday, lies at
\* most 3 days from the date and is the nearer of the previous and the next
\* occurrence of the weekday, the previous one on equal distance.
C26_NearestWeekday ==
  NearestDone =>
    LET d == call.fromDate
        w == call.targetDay
        prev == PreviousOn(d, w)
        next == NextOn(d, w)
    IN IF getDay(d) = w THEN ret = d
       ELSE /\ getDay(ret) = w
            /\ ret - d <= 3 * HoursPerDay
            /\ d - ret <= 3 * HoursPerDay
            /\ ret = IF d - prev <= next - d THEN prev ELSE next

\* the previous occurrence, three days back, is the nearer one
C26_Witness ==
  /\ NearestDone
  /\ getDay(call.fromDate) # call.targetDay
  /\ ret = addDays(call.fromDate, -3)
  /\ getDay(ret) = call.targetDay

(***************************************************************************)
(* Specification SpecOverride: override application on bounded store rows  *)
(***************************************************************************)
MaxOverrideRows == 2
OriginalOffsets == {0, 1, 8, 15}
ActualOffsets == {-1, 2, 8, 15}
KnownOffsets == {0, 1, 3}

OverrideRowSpace ==
  [uprn : {"U1"}, service_name : {"Recycling Collection", "Refuse Collection"},
   original_date : {BaseDay + k : k \in OriginalOffsets},
   actual_date : {BaseDay + k : k \in ActualOffsets}]

\* UNIQUE(uprn, service_name, original_date)
OverrideKeyUnique(tbl) ==
  \A r1, r2 \in tbl :
    (r1.uprn = r2.uprn /\ r1.service_name = r2.service_name
       /\ r1.original_date = r2.original_date) => r1 = r2

OverrideTables ==
  {tbl \in {{}} \cup {{f[i] : i \in 1..MaxOverrideRows} :
                        f \in [1..MaxOverrideRows -> OverrideRowSpace]} :
     OverrideKeyUnique(tbl)}

InitOverride ==
  /\ subscriptions = <<>>
  /\ run = IdleRun
  /\ issued = 0
  /\ now = BaseDay * HoursPerDay + 9
  /\ \E schedule \in {TxtTuesdayFortnightly, TxtEveryTuesday, TxtWeekly} :
       \E k \in KnownOffsets :
         collections =
           {[uprn |-> "U1", service_name |-> "Recycling Collection",
             schedule |-> schedule, next_collection |-> BaseDay + k],
            [uprn |-> "U1", service_name |-> "Refuse Collection",
             schedule |-> TxtEveryTuesday, next_collection |-> BaseDay + 1],
            [uprn |-> "U2", service_name |-> "Refuse Collection",
             schedule |-> TxtFridayUpper, next_collection |-> BaseDay + 4]}
  /\ overrides \in OverrideTables
  /\ call = [op |-> "serviceEvents", done |-> FALSE, uprn |-> "U1"]
  /\ ret = <<>>

GetServiceEvents ==
  /\ call.op = "serviceEvents"
  /\ ~call.done
  /\ call' = [call EXCEPT !.done = TRUE]
  /\ ret' = ServiceEvents(call.uprn, collections, overrides, now)
  /\ UNCHANGED <<now, storeVars>>

NextOverride == GetServiceEvents

SpecOverride == InitOverride /\ [][NextOverride]_vars

Applied == call.op = "serviceEvents" /\ call.done

\* the stored collection row of a service of the requested property
CollectionRowOf(serviceName) ==
  CHOOSE c \in collections : c.uprn = call.uprn /\ c.service_name = serviceName

\* what the projector gave for that service
GeneratedFor(serviceName) ==
  LET c == CollectionRowOf(serviceName)
  IN generateCollectionDates(FromSqlDate(c.next_collection), c.schedule, CalendarMonths, now)

\* the override rows of the service the route reads
VisibleOverrides(serviceName) ==
  {r \in overrides : r.uprn = call.uprn /\ r.service_name = serviceName
                       /\ r.actual_date >= DayOf(now)}

\* C7: an occurrence whose calendar day has an override of its service gets
\* the override's actual date and isOverride = TRUE; any other occurrence
\* keeps date and projector flag; length and order are kept; overrides of
\* another service have no effect.
C7_OverrideApplication ==
  Applied =>
    /\ Len(ret) = Cardinality({c \in collections : c.uprn = call.uprn})
    /\ \A i \in 1..Len(ret) :
         LET gen == GeneratedFor(ret[i].serviceName)
             ev == ret[i].events
         IN /\ Len(ev) = Len(gen)
            /\ \A j \in 1..Len(gen) :
                 LET hits == {r \in VisibleOverrides(ret[i].serviceName) :
                                CivilFromDays(r.original_date) = CivilFromDays(DayOf(gen[j].date))}
                 IN IF hits # {}
                    THEN \E r \in hits :
                           ev[j] = [date |-> r.actual_date * HoursPerDay, isOverride |-> TRUE]
                    ELSE ev[j] = gen[j]

\* one service has an occurrence moved by an override and keeps the flag of
\* its shifted known date, while the same override day occurs unmoved in
\* the other service
C7_Witness ==
  /\ Applied
  /\ \E i, i2 \in 1..Len(ret) :
       LET gen == GeneratedFor(ret[i].serviceName)
       IN /\ i # i2
          /\ \E j \in 1..Len(gen) :
               /\ ret[i].events[j].date # gen[j].date
               /\ ret[i].events[j].isOverride
               /\ \E j2 \in 1..Len(ret[i2].events) :
                    /\ ret[i2].events[j2].date = gen[j].date
                    /\ ~ret[i2].events[j2].isOverride
          /\ \E j \in 1..Len(gen) :
               /\ gen[j].isOverride
               /\ ret[i].events[j] = gen[j]

Reapplied(i) ==
  ApplyDbOverrides(ret[i].events,
    ServiceOverridesOf(BuildOverrideMap(getCollectionOverrides(overrides, call.uprn, now)),
                       ret[i].serviceName))

\* C8 as stated: applying the mapping to the applied sequence changes nothing
C8_IdempotentAnyMapping ==
  Applied => \A i \in 1..Len(ret) : Reapplied(i) = ret[i].events

\* no actual date of the service's mapping is itself an original date in it
ChainFree(serviceName) ==
  \A r1, r2 \in VisibleOverrides(serviceName) : r1.actual_date # r2.original_date

\* C8 (amended): override application is idempotent for a mapping in which
\* no actual date is itself a key of the mapping.
C8_IdempotentChainFree ==
  Applied => \A i \in 1..Len(ret) :
    ChainFree(ret[i].serviceName) => Reapplied(i) = ret[i].events

\* a chain-free mapping that moved an occurrence
C8_Witness ==
  /\ Applied
  /\ \E i \in 1..Len(ret) :
       /\ ChainFree(ret[i].serviceName)
       /\ \E j \in 1..Len(ret[i].events) :
            /\ ret[i].events[j].isOverride
            /\ ret[i].events[j].date # GeneratedFor(ret[i].serviceName)[j].date

(***************************************************************************)
(* Specification SpecICal: the materializer on bounded service events      *)
(***************************************************************************)
MaxServices == 2
MaxEvents == 2

ICalServiceNames == {RECYCLING, REFUSE, FOOD, GARDEN, PAPER}

\* two instants of one day (one flagged) and one of the next day
ICalOccurrences ==
  {[date |-> (BaseDay + 1) * HoursPerDay, isOverride |-> FALSE],
   [date |-> (BaseDay + 1) * HoursPerDay + 12, isOverride |-> TRUE],
   [date |-> (BaseDay + 2) * HoursPerDay, isOverride |-> FALSE]}

ICalInputs ==
  {[i \in 1..Len(names) |-> [serviceName |-> names[i], events |-> evs[i]]] :
     <<names, evs>> \in
       {p \in SeqsUpTo(ICalServiceNames, MaxServices)
                \X SeqsUpTo(SeqsUpTo(ICalOccurrences, MaxEvents), MaxServices) :
          /\ Len(p[1]) >= 1
          /\ Len(p[1]) = Len(p[2])
          /\ \A i, j \in 1..Len(p[1]) : i # j => p[1][i] # p[1][j]}}

InitICal ==
  /\ StoreIdle
  /\ now = BaseDay * HoursPerDay + 9
  /\ \E events \in ICalInputs : \E filter \in {NoFilter, FilterRecycling, FilterGeneral} :
       call = [op |-> "generateICalendar", done |-> FALSE, events |-> events,
               options |-> [uprn |-> UprnA, filter |-> filter]]
  /\ ret = <<>>

Materialize ==
  /\ call.op = "generateICalendar"
  /\ ~call.done
  /\ call' = [call EXCEPT !.done = TRUE]
  /\ ret' = generateICalendar(call.events, call.options)
  /\ UNCHANGED <<now, storeVars>>

NextICal == Materialize

SpecICal == InitICal /\ [][NextICal]_vars

Materialized == call.op = "generateICalendar" /\ call.done

\* the services of the input that have an occurrence on calendar day d
ServicesOn(d) ==
  {call.events[i].serviceName : i \in
     {i \in 1..Len(call.events) :
        \E j \in 1..Len(call.events[i].events) : DayOf(call.events[i].events[j].date) = d}}

InputDays ==
  {DayOf(call.events[i].events[j].date) :
     <<i, j>> \in {p \in (1..Len(call.events)) \X (1..MaxEvents + 1) :
                     p[2] <= Len(call.events[p[1]].events)}}

PassesFilter(d) ==
  /\ call.options.filter = FilterRecycling => RECYCLING \in ServicesOn(d)
  /\ call.options.filter = FilterGeneral => REFUSE \in ServicesOn(d)

Ymd(d) == LET c == CivilFromDays(d) IN c[1] * 10000 + c[2] * 100 + c[3]

\* C9: one event per calendar day that has a non-food service and passes
\* the filter; the event lists every service of its day; no two events of
\* the document start on the same date.
C9_OneEventPerDay ==
  Materialized =>
    /\ {ret[n].dtstart : n \in 1..Len(ret)}
         = {Ymd(d) : d \in {x \in InputDays : ServicesOn(x) \ {FOOD} # {} /\ PassesFilter(x)}}
    /\ \A n, m \in 1..Len(ret) : n # m => ret[n].dtstart # ret[m].dtstart
    /\ \A n \in 1..Len(ret) : \A d \in InputDays :
         Ymd(d) = ret[n].dtstart => ServicesOn(d) \subseteq Range(ret[n].services)

\* Recycling and Food on the same days: one event per day, listing both
C9_Witness ==
  /\ Materialized
  /\ Len(call.events) = 2
  /\ \A d \in InputDays : ServicesOn(d) = {RECYCLING, FOOD}
  /\ Cardinality(InputDays) = 2
  /\ Len(ret) = 2
  /\ \A n \in 1..Len(ret) : Range(ret[n].services) = {RECYCLING, FOOD}

InputHasFood == \E i \in 1..Len(call.events) : call.events[i].serviceName = FOOD

\* C10: a day with only Food gives no event; with a Food service every
\* event lists Food; without one no event lists Food.
C10_FoodRule ==
  Materialized =>
    /\ \A d \in InputDays :
         ServicesOn(d) = {FOOD} => \A n \in 1..Len(ret) : ret[n].dtstart # Ymd(d)
    /\ InputHasFood => \A n \in 1..Len(ret) : FOOD \in Range(ret[n].services)
    /\ ~InputHasFood => \A n \in 1..Len(ret) : FOOD \notin Range(ret[n].services)

\* Food alone on one day (no event) and another service alone on another
\* day, whose event lists the injected Food
C10_Witness ==
  /\ Materialized
  /\ InputHasFood
  /\ \E d \in InputDays : ServicesOn(d) = {FOOD}
  /\ \E d \in InputDays :
       /\ FOOD \notin ServicesOn(d)
       /\ \E n \in 1..Len(ret) : ret[n].dtstart = Ymd(d) /\ FOOD \in Range(ret[n].services)
  /\ Len(ret) = 1

\* the class of a day by priority over its services
ClassOf(services) ==
  IF RECYCLING \in Range(services) THEN "Recycling"
  ELSE IF REFUSE \in Range(services) THEN "General Waste"
  ELSE IF GARDEN \in Range(services) THEN "Garden"
  ELSE "Bin Day"

\* C11: the events of a document carry one colour hint per class (Recycling,
\* General Waste, Garden, Bin Day by priority over the day's services), and
\* events of different classes carry different colour hints.
C11_FourClassColours ==
  Materialized =>
    \A n, m \in 1..Len(ret) :
      (ClassOf(ret[n].services) = ClassOf(ret[m].services)) <=> (ret[n].color = ret[m].color)


\* the document the same input gives without a category filter
Unfiltered == generateICalendar(call.events, [call.options EXCEPT !.filter = NoFilter])

\* the service a category filter keeps
PrimaryOf(filter) == IF filter = FilterRecycling THEN RECYCLING ELSE REFUSE

\* C12: with the filter recycling (general) the document has an event for a
\* day exactly when the unfiltered document has one whose services include
\* Recycling Collection (Refuse Collection), and a kept event lists the same
\* services as the unfiltered one, injected Food included.
C12_FilterKeepsPrimaryDays ==
  (Materialized /\ call.options.filter # NoFilter) =>
    /\ {ret[n].dtstart : n \in 1..Len(ret)}
         = {Unfiltered[m].dtstart : m \in
              {m \in 1..Len(Unfiltered) :
                 PrimaryOf(call.options.filter) \in Range(Unfiltered[m].services)}}
    /\ \A n \in 1..Len(ret) : \A m \in 1..Len(Unfiltered) :
         ret[n].dtstart = Unfiltered[m].dtstart => ret[n].services = Unfiltered[m].services

\* Refuse on one day, Food on the other: the general stream keeps the Refuse
\* day with Food injected
C12_Witness ==
  /\ Materialized
  /\ call.options.filter = FilterGeneral
  /\ InputHasFood
  /\ Len(Unfiltered) = 1
  /\ Len(ret) = 1
  /\ ret[1].services = <<REFUSE, FOOD>>
  /\ \E d \in InputDays : ServicesOn(d) = {FOOD}

(***************************************************************************)
(* Specification SpecUid: two calendar requests, each with its own         *)
(* property, filter parameter and service events                           *)
(***************************************************************************)
\* filter parameters a request can carry: absent, the two documented values,
\* and a value the route passes on unchecked
FilterParams == {NoFilter, FilterRecycling, FilterGeneral, FilterRecyclingCapital}

\* the services of one collection day, on either of two days, flagged or not
UidServiceLists == {<<RECYCLING>>, <<RECYCLING, REFUSE>>, <<REFUSE, FOOD>>}
UidDays == {BaseDay + 1, BaseDay + 2}

UidEvents ==
  {[i \in 1..Len(names) |->
      [serviceName |-> names[i],
       events |-> <<[date |-> d * HoursPerDay, isOverride |-> flag]>>]] :
     <<names, d, flag>> \in UidServiceLists \X UidDays \X BOOLEAN}

UidRequests ==
  [events : UidEvents, options : [uprn : Uprns, filter : FilterParams]]

InitUid ==
  /\ StoreIdle
  /\ now = BaseDay * HoursPerDay + 9
  /\ \E first \in UidRequests : \E second \in UidRequests :
       call = [op |-> "calendar", done |-> FALSE, requests |-> <<first, second>>]
  /\ ret = <<>>

\* the next request is answered with its document
GetCalendar ==
  /\ call.op = "calendar"
  /\ Len(ret) < Len(call.requests)
  /\ ret' = Append(ret, generateICalendar(call.requests[Len(ret) + 1].events,
                                          call.requests[Len(ret) + 1].options))
  /\ call' = [call EXCEPT !.done = (Len(ret) + 1 = Len(call.requests))]
  /\ UNCHANGED <<now, storeVars>>

NextUid == GetCalendar

SpecUid == InitUid /\ [][NextUid]_vars

\* the stream a request's document belongs to: the filter the materializer
\* applies to the days
StreamCategory(filter) ==
  IF filter = FilterRecycling THEN "recycling"
  ELSE IF filter = FilterGeneral THEN "general" ELSE "combined"

BothAnswered == call.op = "calendar" /\ call.done

UidTriple(r, e) ==
  <<call.requests[r].options.uprn, StreamCategory(call.requests[r].options.filter),
    ret[r][e].dtstart>>

\* C13: two events of any two documents have the same UID exactly when they
\* agree in property, stream category and date, whatever their services and
\* override flags; no UID contains the property identifier.
C13_UidFunctionOfTriple ==
  BothAnswered =>
    /\ \A e1 \in 1..Len(ret[1]) : \A e2 \in 1..Len(ret[2]) :
         (UidTriple(1, e1) = UidTriple(2, e2)) <=> (ret[1][e1].uid = ret[2][e2].uid)
    /\ \A r \in 1..2 : \A e \in 1..Len(ret[r]) :
         ~includes(ret[r][e].uid, call.requests[r].options.uprn)

(***************************************************************************)
(* Specification SpecFold: foldLine on bounded lines                       *)
(***************************************************************************)
MaxLineLen == 200

\* a line repeats one of these units
LineUnits ==
  {<<"a">>, <<"a", " ">>, <<"U+00E9">>, <<"U+20AC">>, <<"U+1F600">>,
   <<"a", "U+1F600", "U+20AC">>}

FoldLines ==
  {[i \in 1..n |-> unit[((i - 1) % Len(unit)) + 1]] :
     <<n, unit>> \in (0..MaxLineLen) \X LineUnits}

InitFold ==
  /\ StoreIdle
  /\ now = BaseDay * HoursPerDay + 9
  /\ \E line \in FoldLines : call = FoldStart(line)
  /\ ret = <<>>

NextFold == FoldShort \/ FoldChar \/ FoldJoin

SpecFold == InitFold /\ [][NextFold]_vars

Folded == call.op = "foldLine" /\ call.done

\* the physical lines of the returned text
LineBreaks == {i \in 1..(Len(ret) - 1) : ret[i] = "CR" /\ ret[i + 1] = "LF"}

PhysicalLines ==
  [k \in 1..(Cardinality(LineBreaks) + 1) |->
     LET from == IF k = 1 THEN 1 ELSE NthOf(LineBreaks, k - 1) + 2
         to == IF k = Cardinality(LineBreaks) + 1 THEN Len(ret)
               ELSE NthOf(LineBreaks, k) - 1
     IN SubSeq(ret, from, to)]

\* the returned text with each line break and the space after it deleted
RECURSIVE Unfold(_)
Unfold(lines) ==
  IF Len(lines) <= 1 THEN (IF Len(lines) = 0 THEN <<>> ELSE lines[1])
  ELSE LET rest == Unfold(Tail(lines))
       IN IF rest # <<>> /\ Head(rest) = " " THEN lines[1] \o Tail(rest)
          ELSE lines[1] \o <<"CR", "LF">> \o rest

\* C14: a line of at most 75 bytes is returned unchanged; a longer one is
\* returned as physical lines of at most 75 bytes each, the first without
\* prefix, every later one starting with one added space, and unfolding
\* (deleting each break and the following space) restores the line, so no
\* character is split; 200 ASCII bytes give 3 physical lines, the first of
\* 75 bytes and two continuation lines of at most 74 content bytes.
C14_LineFolding ==
  Folded =>
    /\ byteLength(call.line) <= MAX_BYTES => ret = call.line
    /\ byteLength(call.line) > MAX_BYTES =>
         /\ Len(PhysicalLines) >= 2
         /\ \A k \in 1..Len(PhysicalLines) : byteLength(PhysicalLines[k]) <= MAX_BYTES
         /\ \A k \in 2..Len(PhysicalLines) :
              Len(PhysicalLines[k]) >= 2 /\ PhysicalLines[k][1] = " "
         /\ Unfold(PhysicalLines) = call.line
    /\ (Len(call.line) = 200 /\ \A i \in 1..Len(call.line) : call.line[i] = "a") =>
         /\ Len(PhysicalLines) = 3
         /\ byteLength(PhysicalLines[1]) = 75
         /\ byteLength(PhysicalLines[2]) - 1 <= 74
         /\ byteLength(PhysicalLines[3]) - 1 <= 74

\* the 200-byte ASCII line has been folded
C14_Witness ==
  /\ Folded
  /\ Len(call.line) = 200
  /\ \A i \in 1..Len(call.line) : call.line[i] = "a"
  /\ Len(PhysicalLines) = 3
  /\ Len(call.result) = 3

(***************************************************************************)
(* Specification SpecPass: one subscribed property whose page shows the    *)
(* same rows to every request, refreshed by up to two daily runs, the      *)
(* first of which may fail between the two writes of a service, with a     *)
(* subscribe request for the property arriving at any moment               *)
(***************************************************************************)
MaxPassRuns == 2

\* rows the page may show: the usual ones, a schedule text that changed,
\* and stale ones
PassEntries ==
  ScrapeEntries \cup StaleEntries
    \cup {[serviceName |-> REFUSE, schedule |-> TxtTuesdayFortnightly, day |-> BaseDay + 8]}

\* what the page showed when the property was subscribed
PassBefore ==
  {obs \in SeqsUpTo(ScrapeEntries, MaxScrape) :
     /\ Len(obs) >= 1
     /\ \A i, j \in 1..Len(obs) : i < j => ServiceRank(obs[i].serviceName) < ServiceRank(obs[j].serviceName)}

\* what the page shows during the runs
PassObservations ==
  {obs \in SeqsUpTo(PassEntries, MaxScrape) :
     /\ Len(obs) >= 1
     /\ \A i, j \in 1..Len(obs) : i # j => obs[i].serviceName # obs[j].serviceName}

InitPass ==
  /\ now = BaseDay * HoursPerDay + 6
  /\ \E before \in PassBefore : \E observation \in PassObservations :
       /\ collections = upsertCollections({}, UprnA, before)
       /\ call = [op |-> "pass", done |-> FALSE, observation |-> observation,
                  before |-> upsertCollections({}, UprnA, before)]
  /\ subscriptions =
       TouchSubscription(createSubscription(<<>>, UprnA, "1 High Street", "CT16 1AA", 1),
                         UprnA, now - 1)
  /\ overrides = {}
  /\ run = IdleRun
  /\ issued = 1
  /\ ret = <<>>

PassStart == call.op = "pass" /\ RefreshStartUpTo(MaxPassRuns)

PassScrape == call.op = "pass" /\ RefreshScraped(call.observation)

\* a statement of the first run throws after the override statement of a
\* service and before its collection statement has taken effect
PassFail ==
  /\ run.n = 1
  /\ run.pc = "upsert"
  /\ run.services[run.k].serviceName \in DOMAIN run.existing
  /\ HolidayAdjusted(run.services[run.k].nextCollection,
                     calculateExpectedNext(run.existing[run.services[run.k].serviceName].nextCollection,
                                           run.existing[run.services[run.k].serviceName].schedule))
  /\ RefreshFail

PassSubscribe ==
  /\ call.op = "pass"
  /\ Subscribe(UprnA, "1 High Street", "CT16 1AA", call.observation)

NextPass ==
  \/ PassStart
  \/ PassScrape
  \/ RefreshSelect
  \/ RefreshService
  \/ RefreshUpsert
  \/ RefreshTouch
  \/ RefreshSleep
  \/ PassFail
  \/ RefreshPurge
  \/ PassSubscribe
  \/ Tick

SpecPass == InitPass /\ [][NextPass]_vars

(***************************************************************************)
(* Specification SpecSchedule: the two parsers, the reconciler's interval   *)
(* and the projector on bounded schedule texts                             *)
(***************************************************************************)
MaxWords == 2

WordTuesday == <<"T", "u", "e", "s", "d", "a", "y">>
WordFridayUpper == <<"F", "R", "I", "D", "A", "Y">>
WordFortnightly == <<"f", "o", "r", "t", "n", "i", "g", "h", "t", "l", "y">>
WordFortnightlyUpper == <<"F", "O", "R", "T", "N", "I", "G", "H", "T", "L", "Y">>
WordFortnight == <<"F", "o", "r", "t", "n", "i", "g", "h", "t">>
WordEvery == <<"E", "v", "e", "r", "y">>
WordWeekly == <<"w", "e", "e", "k", "l", "y">>
WordSunday == <<"S", "u", "n", "d", "a", "y">>
WordMondayLower == <<"m", "o", "n", "d", "a", "y">>
WordOther == <<"x">>

ScheduleWords ==
  {WordTuesday, WordFridayUpper, WordFortnightly, WordFortnightlyUpper,
   WordFortnight, WordEvery, WordWeekly, WordSunday,
   WordMondayLower, WordOther}

\* the words of a text joined by single spaces
RECURSIVE JoinWords(_)
JoinWords(ws) ==
  IF Len(ws) = 0 THEN <<>>
  ELSE IF Len(ws) = 1 THEN ws[1]
  ELSE ws[1] \o <<" ">> \o JoinWords(Tail(ws))

WordTexts == {JoinWords(ws) : ws \in SeqsUpTo(ScheduleWords, MaxWords)} \cup ScheduleTexts

\* the known date of the projection: Wednesday 2025-12-24
ScheduleKnown == (BaseDay + 2) * HoursPerDay

InitSchedule ==
  /\ StoreIdle
  /\ now = BaseDay * HoursPerDay + 9
  /\ \E schedule \in WordTexts :
       call = [op |-> "schedule", done |-> FALSE, schedule |-> schedule]
  /\ ret = <<>>

\* the text goes through parseScheduleInterval, parseDayOfWeek,
\* calculateExpectedNext and generateCollectionDates
ParseSchedule ==
  /\ call.op = "schedule"
  /\ ~call.done
  /\ call' = [call EXCEPT !.done = TRUE]
  /\ ret' = [interval |-> parseScheduleInterval(call.schedule),
             dayOfWeek |-> parseDayOfWeek(call.schedule),
             expectedNext |-> calculateExpectedNext(ScheduleKnown, call.schedule),
             dates |-> generateCollectionDates(ScheduleKnown, call.schedule, 1, now)]
  /\ UNCHANGED <<now, storeVars>>

NextSchedule == ParseSchedule

SpecSchedule == InitSchedule /\ [][NextSchedule]_vars

ScheduleParsed == call.op = "schedule" /\ call.done

\* two characters are the same letter in either case, or the same character
SameIgnoringCase(a, b) ==
  \/ a = b
  \/ a \in DOMAIN UpperToLower /\ UpperToLower[a] = b
  \/ b \in DOMAIN UpperToLower /\ UpperToLower[b] = a

\* the word occurs in the text at offset i, in any letter case
OccursAt(text, word, i) ==
  /\ i + Len(word) <= Len(text)
  /\ \A j \in 1..Len(word) : SameIgnoringCase(text[i + j], word[j])

Occurs(text, word) == \E i \in 0..Len(text) : OccursAt(text, word, i)

\* C22: the interval is 14 days when the text contains "fortnightly" in any
\* letter case and 7 days otherwise, and the reconciler's expected date is
\* the stored date plus that same interval.
C22_IntervalDays ==
  ScheduleParsed =>
    /\ ret.interval = IF Occurs(call.schedule, PatFortnightly) THEN 14 ELSE 7
    /\ ret.expectedNext = ScheduleKnown + ret.interval * HoursPerDay

\* an upper-case FORTNIGHTLY gives 14 in both places
C22_Witness ==
  /\ ScheduleParsed
  /\ call.schedule = JoinWords(<<WordFridayUpper, WordFortnightlyUpper>>)
  /\ ret.interval = 14
  /\ ret.expectedNext = ScheduleKnown + 14 * HoursPerDay

\* C23: parseDayOfWeek gives a value for every text: null exactly when no
\* weekday name occurs in it in any letter case, and otherwise the number of
\* the first of the names sunday..saturday that occurs in it; with null the
\* projector steps from the known date by the parsed interval, unflagged.
C23_DayOfWeekOrLegacy ==
  ScheduleParsed =>
    /\ ret.dayOfWeek \in (0..6) \cup {NULL}
    /\ ret.dayOfWeek = NULL <=> \A i \in 1..Len(days) : ~Occurs(call.schedule, days[i])
    /\ ret.dayOfWeek # NULL =>
         /\ Occurs(call.schedule, days[ret.dayOfWeek + 1])
         /\ \A i \in 1..ret.dayOfWeek : ~Occurs(call.schedule, days[i])
    /\ ret.dayOfWeek = NULL =>
         /\ ret.dates # <<>>
         /\ \A k \in 1..Len(ret.dates) :
              /\ ~ret.dates[k].isOverride
              /\ ret.dates[k].date =
                   addDays(startOfDay(ScheduleKnown), (k - 1) * ret.interval)

\* a text without a weekday name is projected every 14 days from the known date
C23_Witness ==
  /\ ScheduleParsed
  /\ call.schedule = JoinWords(<<WordOther, WordFortnightlyUpper>>)
  /\ ret.dayOfWeek = NULL
  /\ Len(ret.dates) = 3
  /\ ret.dates[3].date = addDays(startOfDay(ScheduleKnown), 28)

(***************************************************************************)
(* Specification SpecSubscribe: a sequence of subscribe requests on an     *)
(* empty store, each with its response                                     *)
(***************************************************************************)
MaxRequests == 3

RequestAddresses == {"1 High Street", "Flat 2, 1 High Street"}

\* the page of a property at the time of a request: nothing or one row
RequestResults(uprn) == {r \in ScrapeResults(uprn) : Len(r) <= 1}

InitSubscribe ==
  /\ StoreIdle
  /\ now = BaseDay * HoursPerDay + 9
  /\ call = [op |-> "subscribe"]
  /\ ret = <<>>

\* the request passes the checks: 200 with the token of the row that
\* createSubscription returned
PostAccepted(uprn, address, postcode, result) ==
  /\ call.op = "subscribe"
  /\ Len(ret) < MaxRequests
  /\ SubscribeStoreUpTo(MaxRequests, uprn, address, postcode, result)
  /\ ret' = Append(ret,
       [status |-> 200, uprn |-> uprn, address |-> address, postcode |-> postcode,
        services |-> Len(result),
        token |-> LET i == CHOOSE k \in 1..Len(subscriptions') : subscriptions'[k].uprn = uprn
                  IN subscriptions'[i].calendar_token])
  /\ UNCHANGED call

\* 400 for a malformed identifier, 404 when the scrape returns no service
PostRejected(uprn, address, postcode, result) ==
  /\ call.op = "subscribe"
  /\ Len(ret) < MaxRequests
  /\ ~uprnRegexTest(uprn) \/ Len(result) = 0
  /\ ret' = Append(ret,
       [status |-> IF ~uprnRegexTest(uprn) THEN 400 ELSE 404, uprn |-> uprn,
        address |-> address, postcode |-> postcode,
        services |-> IF ~uprnRegexTest(uprn) THEN 0 ELSE Len(result), token |-> NULL])
  /\ UNCHANGED <<now, storeVars, call>>

PostSubscribeAccepted ==
  \E uprn \in Uprns : \E address \in RequestAddresses :
    \E postcode \in Postcodes : \E result \in RequestResults(uprn) :
      PostAccepted(uprn, address, postcode, result)

PostSubscribeRejected ==
  \E uprn \in Uprns \cup {UprnShort} : \E address \in RequestAddresses :
    \E postcode \in Postcodes : \E result \in RequestResults(uprn) :
      PostRejected(uprn, address, postcode, result)

NextSubscribe == PostSubscribeAccepted \/ PostSubscribeRejected

SpecSubscribe == InitSubscribe /\ [][NextSubscribe]_vars

Answered == call.op = "subscribe"

\* the request just answered
LastResponse == ret'[Len(ret')]

\* the row of a subscribed property
SubscriptionOf(uprn) ==
  subscriptions[CHOOSE i \in 1..Len(subscriptions) : subscriptions[i].uprn = uprn]

\* a request that is turned down leaves subscriptions and collections as
\* they are, and a request is turned down exactly when its identifier is not
\* 10 to 12 digits or the scrape returned no service
C29_RejectStep ==
  (Answered /\ Len(ret') = Len(ret) + 1) =>
    /\ LastResponse.status # 200 <=>
         (LastResponse.uprn = UprnShort \/ LastResponse.services = 0)
    /\ LastResponse.status # 200 =>
         (subscriptions' = subscriptions /\ collections' = collections)

\* one row per property; every token handed out is the token of the row of
\* its property, so it is the same for every accepted request of the
\* property; the row has the address and postcode of the last accepted one
C29_Subscriptions ==
  Answered =>
    /\ \A i, j \in 1..Len(subscriptions) :
         i # j => /\ subscriptions[i].uprn # subscriptions[j].uprn
                  /\ subscriptions[i].calendar_token # subscriptions[j].calendar_token
    /\ \A r \in 1..Len(ret) : ret[r].status = 200 =>
         /\ \E i \in 1..Len(subscriptions) : subscriptions[i].uprn = ret[r].uprn
         /\ SubscriptionOf(ret[r].uprn).calendar_token = ret[r].token
         /\ (\A q \in (r + 1)..Len(ret) : ~(ret[q].status = 200 /\ ret[q].uprn = ret[r].uprn))
              => /\ SubscriptionOf(ret[r].uprn).address = ret[r].address
                 /\ SubscriptionOf(ret[r].uprn).postcode = ret[r].postcode
    /\ \A i \in 1..Len(subscriptions) :
         \E r \in 1..Len(ret) : ret[r].status = 200 /\ ret[r].uprn = subscriptions[i].uprn
    /\ \A c \in collections :
         \E r \in 1..Len(ret) : ret[r].status = 200 /\ ret[r].uprn = c.uprn

\* C29: after any sequence of subscribe requests there is at most one
\* subscription per property; subscribing a subscribed property keeps and
\* returns its token and updates address and postcode; a request with a
\* malformed identifier or a scrape without services changes no subscription
\* and no collection.
C29_OneSubscriptionPerProperty ==
  [][C29_RejectStep]_vars /\ []C29_Subscriptions

\* a property is subscribed, another one is, and the first one again from
\* another address: same token, new address
C29_Witness ==
  /\ Answered
  /\ Len(ret) = 3
  /\ ret[1].status = 200 /\ ret[1].uprn = UprnA /\ ret[1].address = "1 High Street"
  /\ ret[2].status = 200 /\ ret[2].uprn = UprnB
  /\ ret[3].status = 200 /\ ret[3].uprn = UprnA
  /\ ret[3].address = "Flat 2, 1 High Street"
  /\ ret[3].token = ret[1].token
  /\ ret[3].token # ret[2].token
  /\ Len(subscriptions) = 2
  /\ subscriptions[1].address = "Flat 2, 1 High Street"

(***************************************************************************)
(* Rate limiter (in-memory), clock in milliseconds                         *)
(***************************************************************************)
\* RATE_LIMITS.delete
RATE_LIMITS == [windowMs |-> 60 * 1000, maxRequests |-> 5]

CleanupEvery == 100

\* cleanup(): entries whose window is over are deleted
cleanup(rateLimitStore, clock) ==
  [key \in {k \in DOMAIN rateLimitStore : ~(rateLimitStore[k].resetAt < clock)}
     |-> rateLimitStore[key]]

\* the Map with one entry set
SetEntry(rateLimitStore, identifier, entry) ==
  [key \in DOMAIN rateLimitStore \cup {identifier} |->
     IF key = identifier THEN entry ELSE rateLimitStore[key]]

\* variant: the window is over as soon as its reset time is reached
WindowExpired_AtReset(entry, clock) == entry.resetAt <= clock

\* "entry.resetAt < now"
WindowExpired(entry, clock) == entry.resetAt < clock

\* variant: one more request than the limit is let through
OverLimit_Strict(entry, config) == entry.count > config.maxRequests

\* "entry.count >= config.maxRequests"
OverLimit(entry, config) == entry.count >= config.maxRequests

\* checkRateLimit after the request counter: the Map and the result
checkRateLimit(rateLimitStore, identifier, config, clock) ==
  IF identifier \notin DOMAIN rateLimitStore
       \/ WindowExpired(rateLimitStore[identifier], clock)
  THEN [store |-> SetEntry(rateLimitStore, identifier,
                           [count |-> 1, resetAt |-> clock + config.windowMs]),
        result |-> [success |-> TRUE, remaining |-> config.maxRequests - 1,
                    resetAt |-> clock + config.windowMs]]
  ELSE IF OverLimit(rateLimitStore[identifier], config)
  THEN [store |-> rateLimitStore,
        result |-> [success |-> FALSE, remaining |-> 0,
                    resetAt |-> rateLimitStore[identifier].resetAt]]
  ELSE [store |-> SetEntry(rateLimitStore, identifier,
                           [rateLimitStore[identifier] EXCEPT !.count = @ + 1]),
        result |-> [success |-> TRUE,
                    remaining |-> config.maxRequests - (rateLimitStore[identifier].count + 1),
                    resetAt |-> rateLimitStore[identifier].resetAt]]

(***************************************************************************)
(* Specification SpecRate: calls of checkRateLimit by two clients under    *)
(* one configuration, with the clock moving between calls; ret is the      *)
(* list of the calls made with their results                               *)
(***************************************************************************)
MaxCalls == 8
MaxClockSteps == 3
ClockStep == 30 * 1000

RateIdentifiers == {"delete:203.0.113.7", "delete:unknown"}

\* a fresh process, or one whose 97th call has just opened a window
InitRate ==
  /\ StoreIdle
  /\ now = 0
  /\ \/ /\ call = [op |-> "rate", rateLimitStore |-> <<>>, requestCount |-> 0]
        /\ ret = <<>>
     \/ /\ call = [op |-> "rate",
                   rateLimitStore |->
                     [key \in {"delete:203.0.113.7"} |->
                        [count |-> 1, resetAt |-> RATE_LIMITS.windowMs]],
                   requestCount |-> 97]
        /\ ret = <<[identifier |-> "delete:203.0.113.7", at |-> 0, success |-> TRUE,
                    remaining |-> RATE_LIMITS.maxRequests - 1,
                    resetAt |-> RATE_LIMITS.windowMs]>>

CheckRateLimit(identifier) ==
  /\ call.op = "rate"
  /\ Len(ret) < MaxCalls
  /\ LET requestCount == call.requestCount + 1
         swept == IF requestCount % CleanupEvery = 0
                  THEN cleanup(call.rateLimitStore, now)
                  ELSE call.rateLimitStore
         out == checkRateLimit(swept, identifier, RATE_LIMITS, now)
     IN /\ call' = [call EXCEPT !.rateLimitStore = out.store,
                                !.requestCount = requestCount]
        /\ ret' = Append(ret, [identifier |-> identifier, at |-> now,
                               success |-> out.result.success,
                               remaining |-> out.result.remaining,
                               resetAt |-> out.result.resetAt])
  /\ UNCHANGED <<now, storeVars>>

RateLimitedCall == \E identifier \in RateIdentifiers : CheckRateLimit(identifier)

\* time passes between calls
ClockAdvance ==
  /\ call.op = "rate"
  /\ now < MaxClockSteps * ClockStep
  /\ now' = now + ClockStep
  /\ UNCHANGED <<storeVars, call, ret>>

NextRate == RateLimitedCall \/ ClockAdvance

SpecRate == InitRate /\ [][NextRate]_vars

RateCalls == call.op = "rate"

\* the earlier calls (and the call itself) of the same identifier in the
\* same window
SameWindow(r) ==
  {q \in 1..r : ret[q].identifier = ret[r].identifier /\ ret[q].resetAt = ret[r].resetAt}

SuccessesSoFar(r) == Cardinality({q \in SameWindow(r) : ret[q].success})

\* the calls of the same identifier before call r
EarlierCalls(r) == {q \in 1..(r - 1) : ret[q].identifier = ret[r].identifier}

\* C30: per identifier, at most maxRequests calls succeed in a window; a
\* successful call reports maxRequests minus the successes so far in its
\* window, never below zero; a call is refused exactly when the window has
\* had maxRequests successes, with remaining 0 and the window's reset time;
\* a call after the reset time opens a new window of windowMs and succeeds;
\* the calls of another identifier do not count.
C30_RateLimit ==
  RateCalls =>
    \A r \in 1..Len(ret) :
      LET last == IF EarlierCalls(r) = {} THEN 0
                  ELSE CHOOSE q \in EarlierCalls(r) : \A p \in EarlierCalls(r) : p <= q
          opens == last = 0 \/ ret[last].resetAt < ret[r].at
      IN /\ SuccessesSoFar(r) <= RATE_LIMITS.maxRequests
         /\ ret[r].success =>
              /\ ret[r].remaining = RATE_LIMITS.maxRequests - SuccessesSoFar(r)
              /\ ret[r].remaining >= 0
         /\ ~ret[r].success =>
              /\ ret[r].remaining = 0
              /\ SuccessesSoFar(r) = RATE_LIMITS.maxRequests
         /\ opens => /\ ret[r].success
                     /\ ret[r].resetAt = ret[r].at + RATE_LIMITS.windowMs
         /\ ~opens => /\ ret[r].resetAt = ret[last].resetAt
                      /\ ret[r].success <=>
                           SuccessesSoFar(last) < RATE_LIMITS.maxRequests

\* five calls of a client pass, the sixth is refused at the reset time of
\* the window, meanwhile another client is served, and after the reset time
\* the first client is served again
C30_Witness ==
  /\ RateCalls
  /\ \E r \in 1..Len(ret) : \E q \in 1..Len(ret) : \E p \in 1..Len(ret) :
       /\ r < q /\ r < p
       /\ ~ret[r].success /\ ret[r].at = ret[r].resetAt
       /\ ret[q].identifier = ret[r].identifier /\ ret[q].success
       /\ ret[q].at > ret[r].resetAt
       /\ ret[p].identifier # ret[r].identifier /\ ret[p].success

(***************************************************************************)
(* Claims on the store specification Spec                                  *)
(***************************************************************************)
\* the service the refresh pass is at, its property and the record read for it
CurService == run.services[run.k]
CurUprn == run.subs[run.idx]
HasPrev == CurService.serviceName \in DOMAIN run.existing
PrevDay == DayOf(run.existing[CurService.serviceName].nextCollection)
PrevIntervalDays ==
  IF includes(toLowerCase(run.existing[CurService.serviceName].schedule), PatFortnightly)
  THEN 14 ELSE 7
ExpectedDay == PrevDay + PrevIntervalDays
ObservedDay == DayOf(CurService.nextCollection)

\* the override step of the pass ran its statement(s) without a failure
ServiceStepDone == run.pc = "service" /\ run'.pc = "upsert"

\* the override table after an override (original -> actual) has superseded
\* any record with the same key
Superseded(uprn, serviceName, original, actual) ==
  {r \in overrides : ~(r.uprn = uprn /\ r.service_name = serviceName
                         /\ r.original_date = original)}
    \cup {[uprn |-> uprn, service_name |-> serviceName,
           original_date |-> original, actual_date |-> actual]}

C1_Step ==
  /\ ServiceStepDone =>
       IF HasPrev /\ Abs(ObservedDay - ExpectedDay) >= 1
       THEN overrides' = Superseded(CurUprn, CurService.serviceName, ExpectedDay, ObservedDay)
       ELSE overrides' = overrides
  /\ (~ServiceStepDone /\ run.pc # "purge") => overrides' = overrides

C2_OriginalOnPattern ==
  \A r \in overrides :
    /\ \A c \in collections :
         (c.uprn = r.uprn /\ c.service_name = r.service_name
            /\ parseDayOfWeek(c.schedule) # NULL)
           => getDay(FromSqlDate(r.original_date)) = parseDayOfWeek(c.schedule)
    /\ \E e \in ScrapeEntries : e.serviceName = r.service_name /\ e.day = r.actual_date

\* a refresh run is between its SELECT of the subscriptions and its response
InRun == run.pc # "idle"

\* the current property's pass has just ended in the catch block
PropertyFailed == InRun /\ run'.errorCount = run.errorCount + 1

C15_Step ==
  /\ InRun =>
       /\ run'.subs = run.subs
       /\ run'.idx \in {run.idx, run.idx + 1}
       /\ run'.idx = run.idx + 1 =>
            run'.pc = IF run.idx < Len(run.subs) THEN "scrape" ELSE "purge"
       /\ (run'.pc = "scrape" /\ run'.idx = run.idx) => run.pc = "scrape"
       /\ run'.pc = "purge" => run'.idx = Len(run.subs) + 1
       /\ run'.pc = "idle" => run.pc = "purge"
  /\ (~InRun /\ run'.pc # "idle") =>
       /\ run'.subs = [i \in 1..Len(subscriptions) |-> subscriptions[i].uprn]
       /\ run'.idx = 1
  /\ PropertyFailed =>
       /\ run.pc \in {"scrape", "select", "service", "upsert", "touch"}
       /\ run'.idx = run.idx + 1
       /\ run'.successCount = run.successCount
  /\ (run.pc = "purge" /\ overrides' # overrides) => run'.summary = "Refresh complete"

\* C15: a run takes the subscribed properties in subscription order, one at
\* a time and each once: the position in the list only moves on by one, a
\* property's scrape is never entered again, a failure in a property's pass
\* counts an error and moves on to the next property (or to the purge after
\* the last one), and the run ends only through the purge, which is reached
\* only after the last property and whose success gives the summary.
C15_EveryPropertyAttemptedOnce ==
  [][C15_Step]_vars

\* the first of two properties failed and the second has been refreshed
C15_Witness ==
  /\ run.pc = "sleep"
  /\ run.idx = 2
  /\ Len(run.subs) = 2
  /\ run.errorCount = 1
  /\ run.successCount = 1

RunComplete == run.pc = "idle" /\ run.summary = "Refresh complete"

\* C16: when a run completes, success count plus error count is the number
\* of subscriptions processed.
C16_SuccessPlusErrorIsAll ==
  RunComplete => run.successCount + run.errorCount = Len(run.subs)

\* the properties the run has left behind (a refreshed property is counted
\* before the pause that ends its pass)
Processed == IF run.pc = "idle" THEN Len(run.subs) ELSE run.idx - 1

\* C16 (amended): at every point of a run each property already passed has
\* exactly one of the outcomes success, error or skipped (a scrape without
\* services, logged and counted in neither), so at completion success count
\* plus error count plus skipped properties is the number of subscriptions.
C16_SuccessErrorOrSkipped ==
  (InRun \/ RunComplete) =>
    /\ run.successCount + run.errorCount + run.warned
         = IF run.pc = "sleep" THEN Processed + 1 ELSE Processed
    /\ run.idx <= Len(run.subs) + 1

\* a completed run over two properties: one refreshed, one skipped
C16_Witness ==
  /\ RunComplete
  /\ Len(run.subs) = 2
  /\ run.successCount = 1
  /\ run.warned = 1
  /\ run.errorCount = 0

(***************************************************************************)
(* Claims on SpecPass                                                      *)
(***************************************************************************)
\* the day one year before a day
YearBefore(day) ==
  LET c == CivilFromDays(day) IN DaysFromCivil(c[1] - 1, c[2], c[3])

\* an override row is gone: no row of the next state has its key
OverrideRemoved ==
  \E r \in overrides : \A q \in overrides' :
    ~(q.uprn = r.uprn /\ q.service_name = r.service_name /\ q.original_date = r.original_date)

C17_Step ==
  /\ (run.pc = "purge" /\ run'.pc = "idle" /\ run'.summary = "Refresh complete") =>
       /\ \A r \in overrides' : r.actual_date >= YearBefore(DayOf(now))
       /\ \A r \in overrides : r.actual_date >= YearBefore(DayOf(now)) => r \in overrides'
  /\ OverrideRemoved => (run.pc = "purge" /\ run.idx = Len(run.subs) + 1)

\* C17: the step that completes a run with its summary leaves no override
\* whose actual date is more than one year before today, whenever it was
\* written, and keeps every override dated within the last year or later;
\* overrides are removed only by that step, after the last property.
C17_PurgeAfterLastProperty ==
  [][C17_Step]_vars

\* a run wrote an override for a stale date and one for a new date, and
\* completed: the stale one is gone, the other is kept
C17_Witness ==
  /\ call.op = "pass"
  /\ RunComplete
  /\ run.successCount = 1
  /\ \E i \in 1..Len(call.observation) : call.observation[i].day = BaseDay - 366
  /\ \E r \in call.before : r.service_name = RECYCLING
  /\ \E r \in overrides : r.service_name = REFUSE
  /\ \A r \in overrides : r.service_name # RECYCLING

CollectionKeyUnique(tbl) ==
  \A r, q \in tbl : (r.uprn = q.uprn /\ r.service_name = q.service_name) => r = q

ObservedNames == {call.observation[i].serviceName : i \in 1..Len(call.observation)}

\* C18: there is one collection row per (property, service); when the
\* property's pass has succeeded, every service of the scrape is stored with
\* the observed schedule text and next-collection date, and the rows of the
\* services that were not in the scrape are the ones stored before.
C18_CollectionsFollowScrape ==
  /\ CollectionKeyUnique(collections)
  /\ (call.op = "pass" /\ run.pc = "sleep") =>
       /\ \A i \in 1..Len(call.observation) :
            [uprn |-> UprnA, service_name |-> call.observation[i].serviceName,
             schedule |-> call.observation[i].schedule,
             next_collection |-> call.observation[i].day] \in collections
       /\ \A r \in call.before : r.service_name \notin ObservedNames => r \in collections
       /\ \A r \in collections : r.service_name \notin ObservedNames => r \in call.before

\* a pass succeeded that moved the date and changed the schedule text of a
\* stored service and left the row of a service the page no longer shows
C18_Witness ==
  /\ call.op = "pass"
  /\ run.pc = "sleep"
  /\ issued = 1
  /\ call.observation =
       <<[serviceName |-> REFUSE, schedule |-> TxtTuesdayFortnightly, day |-> BaseDay + 8]>>
  /\ \E r \in call.before : r.service_name = REFUSE /\ r.next_collection = BaseDay
  /\ \E r \in call.before : r.service_name = RECYCLING
  /\ \E r \in collections : r.service_name = RECYCLING

\* the tables an uninterrupted pass over the scraped services leaves
RECURSIVE PassOverrides(_, _, _, _)
PassOverrides(tbl, existing, uprn, services) ==
  IF services = <<>> THEN tbl
  ELSE LET service == Head(services)
           actualNext == parseUKDateLocal(service.day)
           adjusted ==
             /\ service.serviceName \in DOMAIN existing
             /\ HolidayAdjusted(actualNext,
                  calculateExpectedNext(existing[service.serviceName].nextCollection,
                                        existing[service.serviceName].schedule))
       IN PassOverrides(
            IF adjusted
            THEN UpsertOverride(tbl, uprn, service.serviceName,
                   calculateExpectedNext(existing[service.serviceName].nextCollection,
                                         existing[service.serviceName].schedule),
                   actualNext)
            ELSE tbl,
            existing, uprn, Tail(services))

RECURSIVE PassCollections(_, _, _)
PassCollections(tbl, uprn, services) ==
  IF services = <<>> THEN tbl
  ELSE PassCollections(
         UpsertCollection(tbl, uprn, Head(services).serviceName, Head(services).schedule,
                          parseUKDateLocal(Head(services).day)),
         uprn, Tail(services))

\* the property's tables are those of one uninterrupted pass from the
\* tables before
LikeASinglePass ==
  /\ collections = PassCollections(call.before, UprnA, call.observation)
  /\ overrides = PassOverrides({}, ExistingMap(call.before, UprnA), UprnA, call.observation)

InitialFetch == BaseDay * HoursPerDay + 5

C19_FailStep ==
  (run.pc = "upsert" /\ run'.errorCount = run.errorCount + 1) =>
    /\ overrides' = overrides
    /\ collections' = collections
    /\ subscriptions' = subscriptions

\* the second run has written everything for the property, the first having
\* failed (the last-fetched time is still the one of the subscription), and
\* no subscribe request came in between
RetrySucceeded ==
  /\ call.op = "pass"
  /\ run.n = 2
  /\ run.pc = "touch"
  /\ issued = 1
  /\ subscriptions[1].last_fetched = InitialFetch

\* C19: a failure between the override statement and the collection
\* statement of a service keeps the override, counts an error and leaves the
\* last-fetched time alone; when the next run has succeeded for the property
\* with the same observation, its collections and overrides are those of an
\* uninterrupted pass.
C19_RetryHeals ==
  [][C19_FailStep]_vars /\ [](RetrySucceeded => LikeASinglePass)

\* a refresh run and a subscribe request have both handled the property
RunAndSubscribeDone ==
  /\ call.op = "pass"
  /\ run.n = 1
  /\ run.pc = "sleep"
  /\ issued >= 2

\* C20: when a refresh run and a subscribe request have handled the property
\* with the same scrape result, in any interleaving, its collections and
\* overrides are those of a single run with that result.
C20_WritersConverge ==
  RunAndSubscribeDone => LikeASinglePass

\* the step makes the run go on to the scrape of the next property
NextScrapeBegins == InRun /\ run'.pc = "scrape" /\ run'.idx = run.idx + 1

\* C21: within a run, the scrape of the next property begins only when the
\* delay after the previous property has elapsed, whether that property was
\* refreshed, had no services or failed.
C21_DelayBetweenScrapes ==
  [][NextScrapeBegins => run.pc = "sleep"]_vars

\* a step of the second run before its purge, the first run having succeeded
\* for the property with the same observation and no subscribe request
\* having been made since
SecondRunReconciles ==
  /\ call.op = "pass"
  /\ run.n = 2
  /\ run.pc \in {"scrape", "select", "service", "upsert", "touch"}
  /\ subscriptions[1].last_fetched # InitialFetch
  /\ issued = 1
  /\ issued' = 1

\* C27: when a run that succeeded for a property is followed by a run in
\* which the page shows the same schedule text and next-collection date for
\* every service, the second run writes no override: the property's
\* overrides stay as the first run left them.
C27_UnchangedSourceNoOverride ==
  [][SecondRunReconciles => overrides' = overrides]_vars

\* the events of the calendar document served for a subscribed property
ServedCalendar(uprn) ==
  generateICalendar(ServiceEvents(uprn, collections, overrides, now),
                    [uprn |-> uprn, filter |-> NoFilter])

\* C28: in every calendar served while no refresh run is in progress, no
\* event lists a service twice: after projection and override application
\* no service has two occurrences on one calendar day.
C28_ServiceOncePerDay ==
  ~InRun =>
    \A s \in 1..Len(subscriptions) :
      LET events == ServedCalendar(subscriptions[s].uprn)
      IN \A e \in 1..Len(events) : \A i, j \in 1..Len(events[e].services) :
           i # j => events[e].services[i] # events[e].services[j]

====
